---- MODULE Spec2Model ----
(***************************************************************************)
(* TickTui: the modal editing grammar (src/editor), the composite pane     *)
(* coordinator (src/editor/composite.rs, src/ui/composite.rs) and the      *)
(* selectable list with its viewport windowing (src/ui/multiselect).       *)
(*                                                                         *)
(* Indices are 0-based as in the source.  Option<T> is modelled by the     *)
(* value None (NoIdx for an Option<usize>) or the value itself.            *)
(***************************************************************************)
EXTENDS Integers, Sequences, FiniteSets, TLC

\* Option::None of an enumeration or a record
None == "None"
\* Option<usize>::None, encoded below every index so that it compares with indices
NoIdx == 0 - 1

Min(a, b) == IF a <= b THEN a ELSE b
Max(a, b) == IF a >= b THEN a ELSE b
\* usize::saturating_sub
SatSub(a, b) == IF a >= b THEN a - b ELSE 0

----------------------------------------------------------------------------
(* Bounds of the model *)

\* largest number of list items
MaxItems == 10
\* largest viewport height (rows) of the list area
MaxHeight == 10
\* largest configured scroll padding
MaxPadding == 2
\* how far select_next may run past the end of the list between two renders
MaxOver == 2
\* largest number of events (keys, clicks, activations) handled by the composite
MaxEvents == 3
\* largest number of actions executed on the single editor
MaxCalls == 2
\* largest row and column of a click, and of the cursor an editor is built with
MaxRow == 2
MaxCol == 3
\* largest number of key events handled by the screen of list and task editor
MaxScreenEvents == 4
\* largest number of MoveCursor(Down) executed in a row on a composite
MaxDowns == 9
\* largest amount of scroll_down_by and scroll_up_by
MaxScroll == 2
\* largest number of items of the list whose state is called operation by operation
MaxStateItems == 3
\* largest number of tasks a refresh delivers
MaxTasks == 6
\* largest number of tasks handed to the focus list
MaxFocusTasks == 5
\* largest number of tasks the background fetch returns
MaxFetched == 2
\* largest height (rows) of the inner area the task list is drawn in
MaxTaskHeight == 6

----------------------------------------------------------------------------
(* Program constants *)

\* src/ui/multiselect/mod.rs:11
ITEM_HEIGHT == 3
\* usize::MAX as passed by select_last and select_previous; any value larger than
\* every index of the model behaves alike, since the render pass clamps it
USIZE_MAX == 2147483647

VARIABLES
    \* ---- selectable list (src/ui/multiselect, src/ui/tasklist.rs)
    items,            \* MultiSelectList.items: the sequence of item identities
    selected,         \* MultiSelectListState.selected
    offset,           \* MultiSelectListState.offset
    visual_start,     \* MultiSelectListState.visual_start
    scroll_padding,   \* MultiSelectList.scroll_padding
    list_height,      \* list_area.height of the render pass
    bounds,           \* the (first, last) pair of the last windowing pass, or <<>>;
                      \* the task list keeps it until its next operation
    lpc,              \* position of the list driver
    lbase,            \* the tasks and the list state before the last removal, or <<>>
    \* ---- editors (src/editor, src/ui/composite.rs, src/ui/taskeditor.rs)
    editors,          \* CompositeEditor.editors, indexed from 0
    active_index,     \* CompositeEditor.active_index, NoIdx for None
    last_area,        \* CompositeEditor.last_area is Some
    nev,              \* number of events handled so far
    \* ---- history variables, written by the steps and read by the properties only
    ev,               \* what the last key event did, and where: its kind, the pane
                      \* that took the key, the mode that pane was in, the key
    chain,            \* per pane: key events since its pending action was armed
    last_action,      \* the class of the last action executed on the single editor
    base,             \* the text and cursor before the last action executed on the
                      \* single editor, for the classes of action the properties read
    \* ---- the screen of src/ui/normalmode.rs
    active_pane,      \* NormalModeUI.active_pane, None where no screen runs
    \* ---- the focus list (src/ui/focuslist/mod.rs, src/ui/focusmode.rs)
    focus_tasks,      \* FocusModeUI.tasks
    focus_items,      \* FocusList.items, written by FocusModeUI::draw
    focused_index,    \* FocusList.focused_index, NoIdx for None
    \* ---- the application (src/app.rs)
    cached_tasks,     \* App.cached_tasks
    pending_tasks,    \* App.pending_tasks: <<>> for None, <<tasks>> for Some(tasks)
    rx,               \* the actions sent on the channel and not yet received
    app_pc,           \* position of App::run
    quitting,         \* App.quitting
    fetch,            \* position of the task spawned by refresh_tasks
    fetched,          \* what fetch_all_tasks returned to it: <<>> or <<tasks>>
    applied           \* number of times update_cache took a pending result

listVars == <<items, selected, offset, visual_start, scroll_padding, list_height,
              bounds, lpc, lbase>>

editorVars == <<editors, active_index, last_area, nev, ev, chain, last_action, base>>

focusVars == <<focus_tasks, focus_items, focused_index>>

appVars == <<cached_tasks, pending_tasks, rx, app_pc, quitting, fetch, fetched, applied>>

vars == <<items, selected, offset, visual_start, scroll_padding, list_height,
          bounds, lpc, lbase, editors, active_index, last_area, nev, ev, chain, last_action,
          base, active_pane, focus_tasks, focus_items, focused_index, cached_tasks,
          pending_tasks, rx, app_pc, quitting, fetch, fetched, applied>>

\* what a step that no pane took a key in leaves in ev
EvNone ==
    [kind |-> "none", key |-> "", active0 |-> NoIdx, row0 |-> 0, pane |-> NoIdx,
     mode0 |-> "", input |-> [key |-> "", ctrl |-> FALSE, alt |-> FALSE, shift |-> FALSE]]

\* the value of the list variables where only editors run, and of the editor
\* variables where only the list runs
ListIdle ==
    /\ items = <<>> /\ selected = NoIdx /\ offset = 0 /\ visual_start = NoIdx
    /\ scroll_padding = 0 /\ list_height = 0 /\ bounds = <<>> /\ lpc = "idle"
    /\ lbase = <<>>

EditorIdle ==
    /\ editors = <<>> /\ active_index = NoIdx /\ last_area = FALSE /\ nev = 0
    /\ ev = EvNone /\ chain = <<>> /\ last_action = "none" /\ base = <<>>

ScreenIdle == active_pane = None

FocusIdle == focus_tasks = <<>> /\ focus_items = <<>> /\ focused_index = NoIdx

AppIdle ==
    /\ cached_tasks = <<>> /\ pending_tasks = <<>> /\ rx = <<>> /\ app_pc = "idle"
    /\ quitting = FALSE /\ fetch = "idle" /\ fetched = <<>> /\ applied = 0

----------------------------------------------------------------------------
(* The buffer primitive (tui_textarea::TextArea), an external collaborator. *)
(* A text area is a record                                                  *)
(*   lines   : the lines, each a sequence of one-character strings          *)
(*   row,col : the cursor, 0-based                                          *)
(*   sel     : the selection anchor <<row, col>>, or <<>>                   *)
(*   selline : TRUE when the anchor was set by start_line_selection         *)
(*   yank    : the register, as the lines of its text (one line: a piece)   *)
(*   desired : the desired column of vertical moves                         *)
(*   hist, hidx : the edit history and the number of edits applied          *)

Take(s, n) == SubSeq(s, 1, n)
Drop(s, n) == SubSeq(s, n + 1, Len(s))

NumLines(t) == Len(t.lines)
LineAt(t, r) == t.lines[r + 1]
LineLen(t, r) == Len(t.lines[r + 1])

TA_default ==
    [lines |-> << <<>> >>, row |-> 0, col |-> 0, sel |-> <<>>, selline |-> FALSE,
     yank |-> << <<>> >>, desired |-> 0, hist |-> <<>>, hidx |-> 0]

\* character classes of the word motions
CharKind(c) ==
    IF c = " " THEN "Space"
    ELSE IF c \in {"$", "{", "}"} THEN "Punct"
    ELSE "Other"

RECURSIVE WordStartForwardFrom(_, _, _)
WordStartForwardFrom(line, c, prev) ==
    IF c >= Len(line) THEN NoIdx
    ELSE LET cur == CharKind(line[c + 1])
         IN  IF cur # "Space" /\ prev # cur THEN c
             ELSE WordStartForwardFrom(line, c + 1, cur)

find_word_start_forward(line, start_col) ==
    IF start_col >= Len(line) THEN NoIdx
    ELSE WordStartForwardFrom(line, start_col + 1, CharKind(line[start_col + 1]))

RECURSIVE WordEndForwardFrom(_, _, _)
WordEndForwardFrom(line, c, prev) ==
    IF c >= Len(line) THEN (IF prev # "Space" THEN c - 1 ELSE NoIdx)
    ELSE LET cur == CharKind(line[c + 1])
         IN  IF prev # "Space" /\ cur # prev THEN c - 1
             ELSE WordEndForwardFrom(line, c + 1, cur)

find_word_inclusive_end_forward(line, start_col) ==
    IF start_col >= Len(line) THEN NoIdx
    ELSE WordEndForwardFrom(line, start_col + 1, CharKind(line[start_col + 1]))

\* c is the column of the character whose class is cur
RECURSIVE WordStartBackwardFrom(_, _, _)
WordStartBackwardFrom(line, c, cur) ==
    IF c = 0 THEN (IF cur # "Space" THEN 0 ELSE NoIdx)
    ELSE LET next == CharKind(line[c])
         IN  IF cur # "Space" /\ next # cur THEN c
             ELSE WordStartBackwardFrom(line, c - 1, next)

find_word_start_backward(line, start_col) ==
    LET sc == Min(start_col, Len(line))
    IN  IF sc = 0 THEN NoIdx
        ELSE WordStartBackwardFrom(line, sc - 1, CharKind(line[sc]))

\* the first row after r0 holding a word end, with that column; the end of the
\* last line when there is none
RECURSIVE WordEndInLaterRows(_, _)
WordEndInLaterRows(t, r) ==
    IF r = NumLines(t) - 1 THEN <<r, LineLen(t, r)>>
    ELSE LET c == find_word_inclusive_end_forward(LineAt(t, r + 1), 0)
         IN  IF c # NoIdx THEN <<r + 1, c>> ELSE WordEndInLaterRows(t, r + 1)

\* the first non-empty row after r that follows an empty row, or NoIdx
RECURSIVE ParagraphStartAfter(_, _, _)
ParagraphStartAfter(t, r, prev_is_empty) ==
    IF r >= NumLines(t) THEN NoIdx
    ELSE LET is_empty == LineLen(t, r) = 0
         IN  IF ~is_empty /\ prev_is_empty THEN r
             ELSE ParagraphStartAfter(t, r + 1, is_empty)

\* scanning rows r, r-1, .. 0: the row below the first empty row that follows a
\* non-empty one, or NoIdx
RECURSIVE ParagraphStartBefore(_, _, _)
ParagraphStartBefore(t, r, prev_is_empty) ==
    IF r < 0 THEN NoIdx
    ELSE LET is_empty == LineLen(t, r) = 0
         IN  IF is_empty /\ ~prev_is_empty THEN r + 1
             ELSE ParagraphStartBefore(t, r - 1, is_empty)

FitCol(t, c, r) == Min(c, LineLen(t, r))

VerticalMoves == {"Up", "Down", "Top", "Bottom", "ParagraphForward", "ParagraphBack"}

\* CursorMove::next_cursor: the new cursor <<row, col>>, or <<>> when the move
\* does not apply.  A move m is a tuple: <<"Up">>, <<"Jump", row, col>>, ...
NextCursor(t, m) ==
    LET row == t.row
        col == t.col
        n == NumLines(t)
        len == LineLen(t, row)
    IN  CASE m[1] = "Forward" ->
               IF col >= len THEN (IF row + 1 < n THEN <<row + 1, 0>> ELSE <<>>)
               ELSE <<row, col + 1>>
          [] m[1] = "Back" ->
               IF col = 0 THEN (IF row > 0 THEN <<row - 1, LineLen(t, row - 1)>> ELSE <<>>)
               ELSE <<row, col - 1>>
          [] m[1] = "Right" -> IF col < len THEN <<row, col + 1>> ELSE <<>>
          [] m[1] = "Left" -> IF col > 0 THEN <<row, col - 1>> ELSE <<>>
          [] m[1] = "Up" -> IF row = 0 THEN <<>> ELSE <<row - 1, FitCol(t, t.desired, row - 1)>>
          [] m[1] = "Down" ->
               IF row + 1 >= n THEN <<>> ELSE <<row + 1, FitCol(t, t.desired, row + 1)>>
          [] m[1] = "Head" -> <<row, 0>>
          [] m[1] = "End" -> <<row, len>>
          [] m[1] = "Top" -> <<0, FitCol(t, t.desired, 0)>>
          [] m[1] = "Bottom" -> <<n - 1, FitCol(t, t.desired, n - 1)>>
          [] m[1] = "WordForward" ->
               LET c == find_word_start_forward(LineAt(t, row), col)
               IN  IF c # NoIdx THEN <<row, c>>
                   ELSE IF row + 1 < n THEN <<row + 1, 0>>
                   ELSE <<row, len>>
          [] m[1] = "WordEnd" ->
               LET c == find_word_inclusive_end_forward(LineAt(t, row), col + 1)
               IN  IF c # NoIdx THEN <<row, c>> ELSE WordEndInLaterRows(t, row)
          [] m[1] = "WordBack" ->
               LET c == find_word_start_backward(LineAt(t, row), col)
               IN  IF c # NoIdx THEN <<row, c>>
                   ELSE IF row > 0 THEN <<row - 1, LineLen(t, row - 1)>>
                   ELSE <<row, 0>>
          [] m[1] = "ParagraphForward" ->
               LET r == ParagraphStartAfter(t, row + 1, len = 0)
               IN  IF r # NoIdx THEN <<r, FitCol(t, t.desired, r)>>
                   ELSE <<n - 1, FitCol(t, t.desired, n - 1)>>
          [] m[1] = "ParagraphBack" ->
               IF row = 0 THEN <<>>
               ELSE LET r == ParagraphStartBefore(t, row - 2, LineLen(t, row - 1) = 0)
                    IN  IF r # NoIdx THEN <<r, FitCol(t, t.desired, r)>>
                        ELSE <<0, FitCol(t, t.desired, 0)>>
          [] m[1] = "Jump" ->
               LET r == Min(m[2], n - 1) IN <<r, FitCol(t, m[3], r)>>

\* move_cursor: the selection, when one is active, follows; the desired column is
\* kept by vertical moves and reset by every other move
MoveTo(t, m, c) ==
    IF c = <<>> THEN t
    ELSE [t EXCEPT !.row = c[1], !.col = c[2],
                   !.desired = IF m[1] \in VerticalMoves THEN t.desired ELSE c[2]]

TA_move_cursor(t, m) == MoveTo(t, m, NextCursor(t, m))

\* the same with shift = false, as TextArea::input moves the cursor
MoveToUnshifted(t, m, c) ==
    IF c = <<>> THEN t
    ELSE [t EXCEPT !.row = c[1], !.col = c[2], !.sel = <<>>, !.selline = FALSE,
                   !.desired = IF m[1] \in VerticalMoves THEN t.desired ELSE c[2]]

TA_move_cursor_unshifted(t, m) == MoveToUnshifted(t, m, NextCursor(t, m))

TA_set_desired_column(t, c) == [t EXCEPT !.desired = c]

TA_start_selection(t) == [t EXCEPT !.sel = <<t.row, t.col>>, !.selline = FALSE]
TA_start_line_selection(t) == [t EXCEPT !.sel = <<t.row, t.col>>, !.selline = TRUE]
TA_cancel_selection(t) == [t EXCEPT !.sel = <<>>, !.selline = FALSE]

PosLess(a, b) == a[1] < b[1] \/ (a[1] = b[1] /\ a[2] < b[2])

\* the selected range <<start, end>> in text order, or <<>> when nothing is
\* selected; a line selection covers its rows whole, with the line break that
\* follows them (or, at the end of the text, the one before them)
SelectionRange(t) ==
    IF t.sel = <<>> THEN <<>>
    ELSE LET cur == <<t.row, t.col>>
         IN  IF t.selline
             THEN LET lo == Min(t.sel[1], t.row)
                      hi == Max(t.sel[1], t.row)
                      n == NumLines(t)
                  IN  IF hi + 1 < n THEN << <<lo, 0>>, <<hi + 1, 0>> >>
                      ELSE IF lo > 0 THEN << <<lo - 1, LineLen(t, lo - 1)>>, <<hi, LineLen(t, hi)>> >>
                      ELSE IF LineLen(t, hi) = 0 /\ lo = hi THEN <<>>
                      ELSE << <<lo, 0>>, <<hi, LineLen(t, hi)>> >>
             ELSE IF PosLess(t.sel, cur) THEN <<t.sel, cur>>
             ELSE IF PosLess(cur, t.sel) THEN <<cur, t.sel>>
             ELSE <<>>

\* the text between two positions, as lines
TextBetween(t, s, e) ==
    IF s[1] = e[1] THEN << SubSeq(LineAt(t, s[1]), s[2] + 1, e[2]) >>
    ELSE << Drop(LineAt(t, s[1]), s[2]) >>
         \o SubSeq(t.lines, s[1] + 2, e[1])
         \o << Take(LineAt(t, e[1]), e[2]) >>

\* the lines without the text between two positions
LinesWithout(t, s, e) ==
    Take(t.lines, s[1])
    \o << Take(LineAt(t, s[1]), s[2]) \o Drop(LineAt(t, e[1]), e[2]) >>
    \o Drop(t.lines, e[1] + 1)

\* the lines with a chunk inserted at the cursor
LinesWith(t, chunk) ==
    LET pre == Take(LineAt(t, t.row), t.col)
        post == Drop(LineAt(t, t.row), t.col)
        k == Len(chunk)
    IN  Take(t.lines, t.row)
        \o (IF k = 1 THEN << pre \o chunk[1] \o post >>
            ELSE << pre \o chunk[1] >> \o SubSeq(chunk, 2, k - 1) \o << chunk[k] \o post >>)
        \o Drop(t.lines, t.row + 1)

\* push an edit on the history, dropping the edits that were undone
PushHistory(t, lines2, row2, col2) ==
    [t EXCEPT !.lines = lines2, !.row = row2, !.col = col2, !.desired = col2,
              !.sel = <<>>, !.selline = FALSE,
              !.hist = Take(t.hist, t.hidx)
                       \o << [bl |-> t.lines, br |-> t.row, bc |-> t.col,
                              al |-> lines2, ar |-> row2, ac |-> col2] >>,
              !.hidx = t.hidx + 1]

\* delete_selection(should_yank)
DeleteRange(t, r, should_yank) ==
    IF r = <<>> THEN TA_cancel_selection(t)
    ELSE [PushHistory(t, LinesWithout(t, r[1], r[2]), r[1][1], r[1][2])
            EXCEPT !.yank = IF should_yank THEN TextBetween(t, r[1], r[2]) ELSE @]

TA_delete_selection(t, should_yank) == DeleteRange(t, SelectionRange(t), should_yank)

TA_cut(t) == TA_delete_selection(t, TRUE)

CopyRange(t, r) ==
    IF r = <<>> THEN TA_cancel_selection(t)
    ELSE [TA_cancel_selection(t) EXCEPT !.yank = TextBetween(t, r[1], r[2])]

TA_copy(t) == CopyRange(t, SelectionRange(t))

\* insert a chunk of text at the cursor
InsertAtCursor(t, chunk) ==
    LET k == Len(chunk)
    IN  IF k = 1 /\ chunk[1] = <<>> THEN t
        ELSE PushHistory(t, LinesWith(t, chunk),
                         t.row + k - 1,
                         IF k = 1 THEN t.col + Len(chunk[1]) ELSE Len(chunk[k]))

\* insert a chunk of text, replacing the selection
TA_insert_chunk(t, chunk) == InsertAtCursor(TA_delete_selection(t, FALSE), chunk)

TA_paste(t) == TA_insert_chunk(t, t.yank)
TA_insert_str(t, chunk) == TA_insert_chunk(t, chunk)
TA_insert_char(t, c) == TA_insert_chunk(t, << <<c>> >>)
TA_insert_newline(t) == TA_insert_chunk(t, << <<>>, <<>> >>)

\* delete_char: the selection, or the character before the cursor
DeleteBack(u, b) ==
    IF b = <<>> THEN u
    ELSE PushHistory(u, LinesWithout(u, b, <<u.row, u.col>>), b[1], b[2])

TA_delete_char(t) ==
    IF SelectionRange(t) # <<>> THEN TA_delete_selection(t, FALSE)
    ELSE DeleteBack(TA_cancel_selection(t), NextCursor(t, <<"Back">>))

TA_set_yank_text(t, chunk) == [t EXCEPT !.yank = chunk]
TA_yank_text(t) == t.yank

TA_undo(t) ==
    IF t.hidx = 0 THEN t
    ELSE LET e == t.hist[t.hidx]
         IN  [t EXCEPT !.lines = e.bl, !.row = e.br, !.col = e.bc, !.desired = e.bc,
                       !.sel = <<>>, !.selline = FALSE, !.hidx = t.hidx - 1]

TA_redo(t) ==
    IF t.hidx >= Len(t.hist) THEN t
    ELSE LET e == t.hist[t.hidx + 1]
         IN  [t EXCEPT !.lines = e.al, !.row = e.ar, !.col = e.ac, !.desired = e.ac,
                       !.sel = <<>>, !.selline = FALSE, !.hidx = t.hidx + 1]

\* str::trim_end on the register text: trailing spaces and line breaks go
RECURSIVE TrimEnd(_)
TrimEnd(chunk) ==
    LET k == Len(chunk)
        l == chunk[k]
    IN  IF l # <<>> /\ l[Len(l)] = " "
        THEN TrimEnd(Take(chunk, k - 1) \o << Take(l, Len(l) - 1) >>)
        ELSE IF l = <<>> /\ k > 1 THEN TrimEnd(Take(chunk, k - 1))
        ELSE chunk

----------------------------------------------------------------------------
(* Keys (tui_textarea::Input).  A key is a record [key, ctrl, alt, shift];   *)
(* Key::Char(c) is the one-character string c, a named key its name.         *)

Plain(k) == [key |-> k, ctrl |-> FALSE, alt |-> FALSE, shift |-> FALSE]
Shift(k) == [key |-> k, ctrl |-> FALSE, alt |-> FALSE, shift |-> TRUE]
Ctrl(k) == [key |-> k, ctrl |-> TRUE, alt |-> FALSE, shift |-> FALSE]

LowerChars == {"i", "a", "o", "x", "d", "c", "y", "p", "u", "r", "s", "v", "h", "j", "k",
               "l", "w", "b", "e", "0", "$", "g", "{", "}", " ", "m"}
UpperChars == {"I", "A", "O", "R", "V", "G"}
Chars == LowerChars \cup UpperChars
NamedKeys == {"Esc", "Enter", "Backspace", "Up", "Down", "Left", "Right"}

Keys ==
    {Plain(k) : k \in LowerChars \cup NamedKeys}
    \cup {Shift(k) : k \in UpperChars}
    \cup {Ctrl(k) : k \in {"r", "c", "m", "Up"}}

IsPlain(input) == ~input.ctrl /\ ~input.alt /\ ~input.shift
NoCtrlAlt(input) == ~input.ctrl /\ ~input.alt

\* TextArea::input: the default key map, for the keys above
TA_input(t, input) ==
    LET k == input.key
    IN  CASE k = "Enter" \/ (k = "m" /\ input.ctrl /\ ~input.alt) -> TA_insert_newline(t)
          [] k \in Chars /\ NoCtrlAlt(input) -> TA_insert_char(t, k)
          [] k = "Backspace" /\ NoCtrlAlt(input) -> TA_delete_char(t)
          [] k = "Up" /\ NoCtrlAlt(input) -> TA_move_cursor_unshifted(t, <<"Up">>)
          [] k = "Down" /\ NoCtrlAlt(input) -> TA_move_cursor_unshifted(t, <<"Down">>)
          [] k = "Left" /\ NoCtrlAlt(input) -> TA_move_cursor_unshifted(t, <<"Back">>)
          [] k = "Right" /\ NoCtrlAlt(input) -> TA_move_cursor_unshifted(t, <<"Forward">>)
          [] k = "Up" /\ input.ctrl /\ ~input.alt -> TA_move_cursor_unshifted(t, <<"ParagraphBack">>)
          [] k = "r" /\ input.ctrl /\ ~input.alt -> TA_redo(t)
          [] k = "c" /\ input.ctrl /\ ~input.alt -> TA_copy(t)
          [] OTHER -> t

----------------------------------------------------------------------------
(* Editor, src/editor/editor.rs.  An editor is a record                      *)
(*   ta : its text area        mode : "Normal", "Insert", "Replace",         *)
(*   "VisualChar" or "VisualLine"                                            *)
(*   pending : the pending action <<op, modifier>>, <<"ReplaceChar">>, or    *)
(*   <<>> for None            yank_type : a text object, or <<>> for None    *)
(* An action is a tuple headed by its name; a text object likewise.          *)

NoPending == <<>>
NoAction == <<>>
NoObject == <<>>

Editor_default ==
    [ta |-> TA_default, mode |-> "Normal", pending |-> NoPending, yank_type |-> NoObject,
     single_line |-> FALSE]

with_single_line(e, b) == [e EXCEPT !.single_line = b]
with_content(e, chunk) == [e EXCEPT !.ta = TA_insert_str(@, chunk)]
set_cursor_pos(e, r, c) == [e EXCEPT !.ta = TA_move_cursor(@, <<"Jump", r, c>>)]

\* the match on the modifier, from the selection anchored at the word's start
ExtendOverWord(a, modifier) ==
    IF modifier = "Inner"
    THEN TA_move_cursor(TA_move_cursor(a, <<"WordEnd">>), <<"Right">>)
    ELSE TA_move_cursor(a, <<"WordForward">>)

select_current_word(t, modifier) ==
    ExtendOverWord(TA_start_selection(TA_move_cursor(t, <<"WordBack">>)), modifier)

\* `if cursor == textarea.cursor()`: a is the text area at the anchor, b the one
\* after the move down
EndIfUnmoved(a, b) ==
    IF <<a.row, a.col>> = <<b.row, b.col>> THEN TA_move_cursor(b, <<"End">>) ELSE b

\* the normal case, from the selection anchored at the head of the line
ExtendOverLine(a) == EndIfUnmoved(a, TA_move_cursor(a, <<"Down">>))

\* the selection of the current line without the case of the last line
select_current_line_as_any_line(t) ==
    ExtendOverLine(TA_start_selection(TA_move_cursor(t, <<"Head">>)))

select_current_line(t) ==
    IF t.row + 1 = NumLines(t) /\ NumLines(t) > 1
    THEN TA_move_cursor(
             TA_move_cursor(
                 TA_start_selection(TA_move_cursor(TA_move_cursor(t, <<"Up">>), <<"End">>)),
                 <<"Down">>),
             <<"End">>)
    ELSE ExtendOverLine(TA_start_selection(TA_move_cursor(t, <<"Head">>)))

\* a paragraph selection that selects the current line
select_current_paragraph_as_line(t, modifier) == select_current_line(t)

select_current_paragraph(t, modifier) == t

\* the match of execute_action for every action but MultiAction: the editor
\* after it, and whether the arm returned from the function
ExecuteArm(e, action) ==
    LET t == e.ta
        go(e2) == [e |-> e2, returned |-> FALSE]
        ret == [e |-> e, returned |-> TRUE]
        kind == action[1]
    IN  CASE kind = "SetMode" ->
               LET mode == action[2]
                   t2 == CASE mode = "Normal" -> TA_cancel_selection(t)
                           [] mode = "VisualChar" -> TA_start_selection(t)
                           [] mode = "VisualLine" -> TA_start_line_selection(t)
                           [] OTHER -> t
               IN  go([e EXCEPT !.ta = t2, !.mode = mode])
          [] kind = "MoveCursor" -> go([e EXCEPT !.ta = TA_move_cursor(t, action[2])])
          [] kind = "Insert" ->
               IF action[2] = <<"Line">>
               THEN IF e.single_line THEN ret ELSE go([e EXCEPT !.ta = TA_insert_newline(t)])
               ELSE go(e)
          [] kind = "ApplyInput" ->
               IF e.single_line /\ action[2].key = "Enter" THEN ret
               ELSE go([e EXCEPT !.ta = TA_input(t, action[2])])
          [] kind = "Delete" ->
               LET obj == action[2]
                   t2 == CASE obj[1] = "Char" ->
                                TA_cut(TA_move_cursor(TA_start_selection(t), <<"Forward">>))
                           [] obj[1] = "WordInner" -> TA_cut(select_current_word(t, "Inner"))
                           [] obj[1] = "WordAround" -> TA_cut(select_current_word(t, "Around"))
                           [] obj[1] = "Line" ->
                                TA_move_cursor(TA_cut(select_current_line(t)),
                                               <<"Jump", t.row, t.col>>)
                           [] obj[1] = "Selection" -> TA_cut(t)
                           [] obj[1] = "To" ->
                                TA_cut(TA_move_cursor(TA_start_selection(t), obj[2]))
                           [] OTHER -> t
               IN  go([e EXCEPT !.yank_type = obj, !.ta = t2])
          [] kind = "Select" ->
               LET obj == action[2]
                   t2 == CASE obj[1] = "WordInner" -> select_current_word(t, "Inner")
                           [] obj[1] = "WordAround" -> select_current_word(t, "Around")
                           [] obj[1] = "ParagraphInner" -> select_current_paragraph(t, "Inner")
                           [] obj[1] = "ParagraphAround" -> select_current_paragraph(t, "Inner")
                           [] OTHER -> t
               IN  go([e EXCEPT !.ta = t2, !.mode = "VisualChar"])
          [] kind = "Yank" ->
               LET obj == action[2]
               IN  CASE obj[1] = "Line" ->
                          go([e EXCEPT !.yank_type = obj,
                                       !.ta = TA_move_cursor(TA_copy(select_current_line(t)),
                                                             <<"Jump", t.row, t.col>>)])
                     [] obj[1] = "Selection" ->
                          go([e EXCEPT !.yank_type = IF e.mode = "VisualLine"
                                                     THEN <<"Line">> ELSE obj,
                                       !.ta = TA_copy(t)])
                     [] OTHER -> go([e EXCEPT !.yank_type = obj])
          [] kind = "ReplaceChar" ->
               LET c == action[2]
                   a == TA_move_cursor(TA_start_selection(t), <<"Forward">>)
                   b == TA_insert_char(TA_set_yank_text(a, << <<c>> >>), c)
               IN  go([e EXCEPT !.ta = TA_move_cursor(b, <<"Back">>)])
          [] kind = "Paste" ->
               IF e.yank_type = <<"Line">>
               THEN IF e.single_line THEN ret
                    ELSE LET a == TA_set_yank_text(t, TrimEnd(TA_yank_text(t)))
                             b == TA_insert_newline(TA_move_cursor(a, <<"End">>))
                         IN  go([e EXCEPT !.ta = TA_move_cursor(TA_paste(b), <<"Head">>)])
               ELSE go([e EXCEPT !.ta = TA_paste(TA_move_cursor(t, <<"Forward">>))])
          [] kind = "Undo" -> go([e EXCEPT !.ta = TA_undo(t)])
          [] kind = "Redo" -> go([e EXCEPT !.ta = TA_redo(t)])
          [] kind = "Pending" -> go([e EXCEPT !.pending = action[2]])

\* an end of execute_action that never drops the pending action
AfterMatchKeepingPending(r, action) == r.e

\* the end of execute_action: an arm that returned skips it, and the Pending
\* arm sets the flag that keeps the pending action
AfterMatch(r, action) ==
    IF r.returned \/ action[1] = "Pending" THEN r.e
    ELSE [r.e EXCEPT !.pending = NoPending]

RECURSIVE Editor_execute_action(_, _)
RECURSIVE ExecuteAll(_, _)

\* the loop of the MultiAction arm
ExecuteAll(e, actions) ==
    IF actions = <<>> THEN e
    ELSE ExecuteAll(Editor_execute_action(e, Head(actions)), Tail(actions))

\* Editor::execute_action
Editor_execute_action(e, action) ==
    IF action[1] = "MultiAction"
    THEN [ExecuteAll(e, action[2]) EXCEPT !.pending = NoPending]
    ELSE AfterMatch(ExecuteArm(e, action), action)

Editor_set_pending_action(e, pending) == [e EXCEPT !.pending = pending]

\* Editor::on_click, with the position already relative to the text
Editor_on_click(e, x, y) == [e EXCEPT !.ta = TA_move_cursor(@, <<"Jump", y, x>>)]

----------------------------------------------------------------------------
(* Key handlers, src/editor/handlers.rs and src/ui/editor/helpers.rs *)

IsChar(input, c) == input.key = c /\ IsPlain(input)
IsCharAnyShift(input, c) == input.key = c /\ NoCtrlAlt(input)

is_movement_key(input) ==
    \/ /\ input.key \in {"h", "j", "k", "l", "w", "b", "e", "0", "$", "g", "{", "}"}
       /\ IsPlain(input)
    \/ IsCharAnyShift(input, "G")
    \/ input.key \in {"Up", "Down", "Left", "Right"}

\* the movement of a key, or <<>> for None
match_movement_key(input) ==
    CASE IsChar(input, "h") -> <<"Left">>
      [] input.key = "Left" /\ IsPlain(input) -> <<"Back">>
      [] IsChar(input, "j") \/ (input.key = "Down" /\ IsPlain(input)) -> <<"Down">>
      [] IsChar(input, "k") \/ (input.key = "Up" /\ IsPlain(input)) -> <<"Up">>
      [] IsChar(input, "l") -> <<"Right">>
      [] input.key = "Right" /\ IsPlain(input) -> <<"Forward">>
      [] IsChar(input, "w") -> <<"WordForward">>
      [] IsChar(input, "b") -> <<"WordBack">>
      [] IsChar(input, "e") -> <<"WordEnd">>
      [] IsChar(input, "0") -> <<"Head">>
      [] IsCharAnyShift(input, "$") -> <<"End">>
      [] IsChar(input, "g") -> <<"Top">>
      [] IsCharAnyShift(input, "G") -> <<"Bottom">>
      [] IsCharAnyShift(input, "{") -> <<"ParagraphBack">>
      [] IsCharAnyShift(input, "}") -> <<"ParagraphForward">>
      [] OTHER -> <<>>

SetMode(mode) == <<"SetMode", mode>>
MoveCursor(mvmt) == <<"MoveCursor", mvmt>>
MultiAction(actions) == <<"MultiAction", actions>>
Pending(op, modifier) == <<"Pending", <<op, modifier>> >>

\* Some(MoveCursor(mvmt)) for a movement key that matches, None otherwise
MovementAction(input) ==
    LET mvmt == match_movement_key(input)
    IN  IF mvmt = <<>> THEN NoAction ELSE MoveCursor(mvmt)

handle_normal_mode_input(input) ==
    CASE IsChar(input, "i") -> SetMode("Insert")
      [] IsCharAnyShift(input, "I") ->
           MultiAction(<<MoveCursor(<<"Head">>), SetMode("Insert")>>)
      [] IsChar(input, "a") -> MultiAction(<<MoveCursor(<<"Right">>), SetMode("Insert")>>)
      [] IsCharAnyShift(input, "A") ->
           MultiAction(<<MoveCursor(<<"End">>), SetMode("Insert")>>)
      [] IsChar(input, "o") ->
           MultiAction(<<MoveCursor(<<"End">>), <<"Insert", <<"Line">> >>, SetMode("Insert")>>)
      [] IsCharAnyShift(input, "O") ->
           MultiAction(<<MoveCursor(<<"Up">>), MoveCursor(<<"End">>),
                         <<"Insert", <<"Line">> >>, SetMode("Insert")>>)
      [] IsChar(input, "x") -> <<"Delete", <<"Char">> >>
      [] IsChar(input, "d") -> Pending("Delete", "None")
      [] IsChar(input, "c") -> Pending("Change", "None")
      [] IsChar(input, "y") -> Pending("Yank", "None")
      [] IsChar(input, "p") -> <<"Paste">>
      [] IsChar(input, "u") -> <<"Undo">>
      [] IsChar(input, "r") -> <<"Pending", <<"ReplaceChar">> >>
      [] IsCharAnyShift(input, "R") -> SetMode("Replace")
      [] input.key = "r" /\ input.ctrl /\ ~input.alt /\ ~input.shift -> <<"Redo">>
      [] IsChar(input, "s") -> Pending("Select", "None")
      [] IsChar(input, "v") -> Pending("Select", "None")
      [] IsCharAnyShift(input, "V") -> SetMode("VisualLine")
      [] OTHER -> IF is_movement_key(input) THEN MovementAction(input) ELSE NoAction

\* the action an operator resolves to on a text object
Operate(op, obj) ==
    CASE op = "Delete" -> <<"Delete", obj>>
      [] op = "Yank" -> <<"Yank", obj>>
      [] op = "Select" -> <<"Select", obj>>
      [] op = "Change" -> MultiAction(<< <<"Delete", obj>>, SetMode("Insert") >>)

\* the arms Op(None) of handle_pending_action_input
PendingBare(input, op) ==
    CASE IsChar(input, "i") -> Pending(op, "Inner")
      [] IsChar(input, "a") -> Pending(op, "Around")
      [] op = "Delete" /\ IsChar(input, "d") -> Operate(op, <<"Line">>)
      [] op = "Yank" /\ IsChar(input, "y") -> Operate(op, <<"Line">>)
      [] op = "Change" /\ IsChar(input, "c") -> Operate(op, <<"Line">>)
      [] OTHER ->
           LET mvmt == match_movement_key(input)
           IN  IF ~is_movement_key(input) \/ mvmt = <<>> THEN NoAction
               ELSE IF op # "Select" THEN Operate(op, <<"To", mvmt>>)
               ELSE IF mvmt[1] \in {"Back", "Left"}
               THEN MultiAction(<<MoveCursor(<<"Right">>), SetMode("VisualChar"),
                                  MoveCursor(<<"Left">>), MoveCursor(mvmt)>>)
               ELSE MultiAction(<<SetMode("VisualChar"), MoveCursor(mvmt)>>)

\* the arms Op(Some(modifier)) of handle_pending_action_input
PendingModified(input, op, modifier) ==
    CASE IsChar(input, "w") ->
           Operate(op, IF modifier = "Inner" THEN <<"WordInner">> ELSE <<"WordAround">>)
      [] IsChar(input, "p") ->
           Operate(op, IF modifier = "Inner" THEN <<"ParagraphInner">>
                       ELSE <<"ParagraphAround">>)
      [] OTHER -> NoAction

\* this definition with every modified operator armed again by any key
handle_pending_action_input_rearming(input, pending) ==
    IF pending = <<"ReplaceChar">>
    THEN (IF input.key \in Chars /\ IsPlain(input) THEN <<"ReplaceChar", input.key>>
          ELSE NoAction)
    ELSE IF pending[2] = "None" THEN PendingBare(input, pending[1])
    ELSE <<"Pending", pending>>

handle_pending_action_input(input, pending) ==
    IF pending = <<"ReplaceChar">>
    THEN (IF input.key \in Chars /\ IsPlain(input) THEN <<"ReplaceChar", input.key>>
          ELSE NoAction)
    ELSE IF pending[2] = "None" THEN PendingBare(input, pending[1])
    ELSE PendingModified(input, pending[1], pending[2])

EscapeToNormal == MultiAction(<<MoveCursor(<<"Left">>), SetMode("Normal")>>)

\* an Insert mode in which v starts a selection
handle_insert_mode_input_entering_visual(input) ==
    IF input.key = "Esc" \/ (input.key = "c" /\ input.ctrl) THEN EscapeToNormal
    ELSE IF IsChar(input, "v") THEN SetMode("VisualChar")
    ELSE <<"ApplyInput", input>>

handle_insert_mode_input(input) ==
    IF input.key = "Esc" \/ (input.key = "c" /\ input.ctrl) THEN EscapeToNormal
    ELSE <<"ApplyInput", input>>

\* a Visual mode in which d arms the operator as it does in Normal mode
handle_visual_mode_input_arming(input, vmode) ==
    CASE input.key = "Esc" -> SetMode("Normal")
      [] IsChar(input, "d") -> Pending("Delete", "None")
      [] OTHER -> IF is_movement_key(input) THEN MovementAction(input) ELSE NoAction

handle_visual_mode_input(input, vmode) ==
    CASE input.key = "Esc" -> SetMode("Normal")
      [] IsChar(input, "d") ->
           MultiAction(<< <<"Delete", <<"Selection">> >>, SetMode("Normal") >>)
      [] IsChar(input, "y") ->
           MultiAction(<< <<"Yank", <<"Selection">> >>, SetMode("Normal") >>)
      [] IsChar(input, "c") ->
           MultiAction(<< <<"Delete", <<"Selection">> >>, SetMode("Insert") >>)
      [] OTHER -> IF is_movement_key(input) THEN MovementAction(input) ELSE NoAction

handle_replace_mode_input(input) ==
    IF input.key = "Esc" \/ (input.key = "c" /\ input.ctrl) THEN EscapeToNormal
    ELSE IF input.key \in Chars
    THEN MultiAction(<< <<"ReplaceChar", input.key>>, MoveCursor(<<"Forward">>) >>)
    ELSE NoAction

handle_input(input, mode) ==
    CASE mode = "Normal" -> handle_normal_mode_input(input)
      [] mode = "Insert" -> handle_insert_mode_input(input)
      [] mode = "VisualChar" -> handle_visual_mode_input(input, "Char")
      [] mode = "VisualLine" -> handle_visual_mode_input(input, "Line")
      [] mode = "Replace" -> handle_replace_mode_input(input)

----------------------------------------------------------------------------
(* CompositeEditor, src/editor/composite.rs and src/ui/composite.rs *)

NumEditors(eds) == Cardinality(DOMAIN eds)

\* the tail of execute_action with the reads of get_desired_column before it,
\* without the hand-over of the desired column
CrossIntoKeepingOwnColumn(eds, from, to, movement) ==
    [editors |-> [eds EXCEPT ![to] = Editor_execute_action(@, MoveCursor(movement))],
     active_index |-> to]

\* the same, handing over the cursor column in place of the desired column
CrossIntoWithCursorColumn(eds, from, to, movement) ==
    LET col == eds[from].ta.col
        entered == [eds[to] EXCEPT !.ta = TA_set_desired_column(@, col)]
    IN  [editors |-> [eds EXCEPT ![to] = Editor_execute_action(entered, MoveCursor(movement))],
         active_index |-> to]

\* the tail of execute_action: pane `to` becomes active, takes the desired column
\* read from pane `from` and makes the movement
CrossInto(eds, from, to, movement) ==
    LET col == eds[from].ta.desired
        entered == [eds[to] EXCEPT !.ta = TA_set_desired_column(@, col)]
    IN  [editors |-> [eds EXCEPT ![to] = Editor_execute_action(entered, MoveCursor(movement))],
         active_index |-> to]

\* a match of execute_action in which Top and Bottom stay in the active pane
CursorMovementWithinPane(eds, active, action) ==
    LET editor == eds[active]
        num_editors == NumEditors(eds)
        mvmt == IF action[1] = "MoveCursor" THEN action[2][1] ELSE ""
    IN  CASE mvmt = "Up" ->
               IF editor.ta.row = 0 /\ active > 0 THEN <<active - 1, <<"Bottom">> >> ELSE <<>>
          [] mvmt = "Down" ->
               IF editor.ta.row >= SatSub(NumLines(editor.ta), 1) /\ active + 1 < num_editors
               THEN <<active + 1, <<"Top">> >>
               ELSE <<>>
          [] mvmt = "Top" -> <<active, <<"Top">> >>
          [] mvmt = "Bottom" -> <<active, <<"Bottom">> >>
          [] OTHER -> <<>>

\* the match of execute_action: <<>> where the active editor executes the action
\* itself, otherwise the pane that becomes active and the movement it makes
CursorMovement(eds, active, action) ==
    LET editor == eds[active]
        num_editors == NumEditors(eds)
        mvmt == IF action[1] = "MoveCursor" THEN action[2][1] ELSE ""
    IN  CASE mvmt = "Up" ->
               IF editor.ta.row = 0 /\ active > 0 THEN <<active - 1, <<"Bottom">> >> ELSE <<>>
          [] mvmt = "Down" ->
               IF editor.ta.row >= SatSub(NumLines(editor.ta), 1) /\ active + 1 < num_editors
               THEN <<active + 1, <<"Top">> >>
               ELSE <<>>
          [] mvmt = "Top" -> <<IF active <= 0 THEN active ELSE 0, <<"Top">> >>
          [] mvmt = "Bottom" ->
               <<IF active >= num_editors - 1 THEN active ELSE num_editors - 1, <<"Bottom">> >>
          [] OTHER -> <<>>

\* an execute_action that never leaves the active pane
AfterCursorMovementStayingPut(eds, active, action, cursor_movement) ==
    [editors |-> [eds EXCEPT ![active] = Editor_execute_action(@, action)],
     active_index |-> active]

\* execute_action once the match has set cursor_movement
AfterCursorMovement(eds, active, action, cursor_movement) ==
    IF cursor_movement = <<>>
    THEN [editors |-> [eds EXCEPT ![active] = Editor_execute_action(@, action)],
          active_index |-> active]
    ELSE CrossInto(eds, active, cursor_movement[1], cursor_movement[2])

\* CompositeEditor::execute_action
Composite_execute_action(eds, active, action) ==
    IF active = NoIdx THEN [editors |-> eds, active_index |-> active]
    ELSE AfterCursorMovement(eds, active, action, CursorMovement(eds, active, action))

\* CompositeEditor::set_pending_action
Composite_set_pending_action(eds, active, pending) ==
    IF active = NoIdx THEN eds
    ELSE [eds EXCEPT ![active] = Editor_set_pending_action(@, pending)]

\* a click that activates the pane below the one clicked
Composite_on_click_below(eds, i, x, y) ==
    [editors |-> [eds EXCEPT ![i] = Editor_on_click(@, x, y)], active_index |-> i + 1]

\* CompositeEditor::on_click for a position inside chunk i, (x, y) relative to
\* the text of pane i
Composite_on_click(eds, i, x, y) ==
    [editors |-> [eds EXCEPT ![i] = Editor_on_click(@, x, y)], active_index |-> i]

----------------------------------------------------------------------------
(* Key events, src/ui.rs and src/ui/taskeditor.rs *)

\* a handler that, having dropped the pending action, reads the key again as a
\* command of the mode
handle_editor_event_reinterpreting(eds, active, input) ==
    IF active = NoIdx THEN [editors |-> eds, active_index |-> active]
    ELSE LET pending == eds[active].pending
             action == IF pending # NoPending
                       THEN handle_pending_action_input(input, pending)
                       ELSE handle_input(input, eds[active].mode)
             cleared == Composite_set_pending_action(eds, active, NoPending)
             again == handle_input(input, eds[active].mode)
         IN  IF action # NoAction THEN Composite_execute_action(eds, active, action)
             ELSE IF pending # NoPending /\ again # NoAction
             THEN Composite_execute_action(cleared, active, again)
             ELSE [editors |-> cleared, active_index |-> active]

\* action_opt of handle_editor_event and handle_key_event, NoAction for None
ActionOpt(input, pending, mode) ==
    IF pending # NoPending THEN handle_pending_action_input(input, pending)
    ELSE handle_input(input, mode)

\* the handler once action_opt is known: None with a pending action drops it,
\* Some(action) is executed
AfterActionOpt(eds, active, pending, action) ==
    IF action # NoAction THEN Composite_execute_action(eds, active, action)
    ELSE IF pending # NoPending
    THEN [editors |-> Composite_set_pending_action(eds, active, NoPending),
          active_index |-> active]
    ELSE [editors |-> eds, active_index |-> active]

\* UserInterface::handle_editor_event and TaskEditor::handle_key_event
handle_editor_event(eds, active, input) ==
    IF active = NoIdx THEN [editors |-> eds, active_index |-> active]
    ELSE AfterActionOpt(eds, active, eds[active].pending,
                        ActionOpt(input, eds[active].pending, eds[active].mode))

\* TaskEditor::deactivate and TaskEditor::activate
deactivate(eds, active) ==
    [editors |-> Composite_set_pending_action(eds, active, NoPending), active_index |-> NoIdx]

activate(eds, active) == [editors |-> eds, active_index |-> 0]

----------------------------------------------------------------------------
(* The composite of src/ui.rs driven by key events, clicks, activation and   *)
(* deactivation                                                              *)

\* the text the second and third pane are built with, cut down to two lines
EDITOR_CONTENT == << <<"a", "b", " ", "c">>, <<"d">> >>

Panes == 0..2

Init ==
    /\ editors = [i \in Panes |->
                    IF i = 0 THEN with_single_line(Editor_default, TRUE)
                    ELSE with_content(Editor_default, EDITOR_CONTENT)]
    /\ active_index = 0
    /\ last_area = FALSE
    /\ nev = 0
    /\ ev = EvNone
    /\ chain = [i \in Panes |-> 0]
    /\ last_action = "none"
    /\ base = <<>>
    /\ ListIdle
    /\ ScreenIdle
    /\ FocusIdle
    /\ AppIdle

IsArmed(e) == e.pending # NoPending

\* what a key event did: with a pending action armed it aborted, armed again or
\* resolved; without one it moved up, down, to the top or to the bottom of the
\* composite, armed an operator, or did something else
ObserveKind(eds, active, input, after) ==
    IF IsArmed(eds[active])
    THEN LET kind == IF handle_pending_action_input(input, eds[active].pending) = NoAction
                     THEN "abort"
                     ELSE IF IsArmed(after.editors[active]) THEN "rearm" ELSE "resolve"
         IN  [kind |-> kind, key |-> IF kind = "rearm" THEN input.key ELSE "",
              active0 |-> NoIdx, row0 |-> 0]
    ELSE LET action == handle_input(input, eds[active].mode)
             mvmt == IF action # NoAction /\ action[1] = "MoveCursor" THEN action[2][1] ELSE ""
         IN  IF mvmt \in {"Up", "Down", "Top", "Bottom"}
             THEN [kind |-> CASE mvmt = "Up" -> "up" [] mvmt = "Down" -> "down"
                              [] mvmt = "Top" -> "top" [] mvmt = "Bottom" -> "bottom",
                   key |-> "", active0 |-> active, row0 |-> eds[active].ta.row]
             ELSE IF IsArmed(after.editors[active])
             THEN [kind |-> "arm", key |-> input.key, active0 |-> NoIdx, row0 |-> 0]
             ELSE [kind |-> "other", key |-> "", active0 |-> NoIdx, row0 |-> 0]

\* the same with the pane that took the key, the mode it was in and the key
Observed(o, pane, mode0, input) ==
    [kind |-> o.kind, key |-> o.key, active0 |-> o.active0, row0 |-> o.row0,
     pane |-> pane, mode0 |-> mode0, input |-> input]

Observe(eds, active, input, after) ==
    IF active = NoIdx THEN EvNone
    ELSE Observed(ObserveKind(eds, active, input, after), active, eds[active].mode, input)

\* per pane, the key events it has taken since its pending action was armed:
\* `taker` is the pane that took a key in this step, or NoIdx
Chained(eds, taker, eds_after) ==
    [i \in DOMAIN eds |->
        IF ~IsArmed(eds_after[i]) THEN 0
        ELSE IF i # taker THEN chain[i]
        ELSE IF IsArmed(eds[i]) THEN chain[i] + 1
        ELSE 1]

KeyEvent ==
    /\ nev < MaxEvents
    /\ \E input \in Keys :
          \E after \in {handle_editor_event(editors, active_index, input)} :
              /\ editors' = after.editors
              /\ active_index' = after.active_index
              /\ ev' = Observe(editors, active_index, input, after)
              /\ chain' = Chained(editors, active_index, after.editors)
    /\ nev' = nev + 1
    /\ UNCHANGED <<last_area, last_action, base, listVars, active_pane, focusVars, appVars>>

\* a frame is drawn: render_content records the area of the composite
Draw ==
    /\ last_area' = TRUE
    /\ UNCHANGED <<editors, active_index, nev, ev, chain, last_action, base, listVars, active_pane, focusVars, appVars>>

OnClick ==
    /\ nev < MaxEvents
    /\ last_area
    /\ \E i \in DOMAIN editors, x \in 0..MaxCol, y \in 0..MaxRow :
          \E after \in {Composite_on_click(editors, i, x, y)} :
              /\ editors' = after.editors /\ active_index' = after.active_index
              /\ chain' = Chained(editors, NoIdx, after.editors)
    /\ nev' = nev + 1
    /\ ev' = EvNone
    /\ UNCHANGED <<last_area, last_action, base, listVars, active_pane, focusVars, appVars>>

Activate ==
    /\ nev < MaxEvents
    /\ \E after \in {activate(editors, active_index)} :
           /\ editors' = after.editors /\ active_index' = after.active_index
           /\ chain' = Chained(editors, NoIdx, after.editors)
    /\ nev' = nev + 1
    /\ ev' = EvNone
    /\ UNCHANGED <<last_area, last_action, base, listVars, active_pane, focusVars, appVars>>

Deactivate ==
    /\ nev < MaxEvents
    /\ \E after \in {deactivate(editors, active_index)} :
           /\ editors' = after.editors /\ active_index' = after.active_index
           /\ chain' = Chained(editors, NoIdx, after.editors)
    /\ nev' = nev + 1
    /\ ev' = EvNone
    /\ UNCHANGED <<last_area, last_action, base, listVars, active_pane, focusVars, appVars>>

Next == KeyEvent \/ Draw \/ OnClick \/ Activate \/ Deactivate

Spec == Init /\ [][Next]_vars

\* the composite of src/ui.rs alone: key events, frames and clicks, with as
\* many layout constraints as panes
NextComposite == KeyEvent \/ Draw \/ OnClick

SpecComposite == Init /\ [][NextComposite]_vars

\* the same composite driven by key events alone
NextKeys == KeyEvent

SpecKeys == Init /\ [][NextKeys]_vars

----------------------------------------------------------------------------
(* A composite of one to three panes, each with some text and cursor and any *)
(* of them active, executing MoveCursor(Down) again and again                *)

PaneContents ==
    { << <<>> >>, EDITOR_CONTENT, << <<"a">>, <<>>, <<"b", "c">> >> }

PaneStates ==
    { set_cursor_pos(with_content(Editor_default, content), r, c) :
          content \in PaneContents, r \in 0..MaxRow, c \in {0, MaxCol} }

\* the number of rows of the panes before pane i
RECURSIVE RowsBefore(_, _)
RowsBefore(eds, i) ==
    IF i = 0 THEN 0 ELSE NumLines(eds[i - 1].ta) + RowsBefore(eds, i - 1)

TotalRows(eds) == RowsBefore(eds, NumEditors(eds))

\* the row of the cursor of the active pane, counted through the composite
DocRow(eds, active) == RowsBefore(eds, active) + eds[active].ta.row

InitDown ==
    /\ \E n \in 1..3 :
          /\ editors \in [0..(n - 1) -> PaneStates]
          /\ active_index \in 0..(n - 1)
    /\ last_area = FALSE
    /\ nev = 0
    /\ ev = EvNone
    /\ chain = [i \in DOMAIN editors |-> 0]
    /\ last_action = "none"
    /\ base = [pos0 |-> DocRow(editors, active_index), editors |-> editors]
    /\ ListIdle
    /\ ScreenIdle
    /\ FocusIdle
    /\ AppIdle

MoveDown ==
    /\ nev < MaxDowns
    /\ \E after \in {Composite_execute_action(editors, active_index, MoveCursor(<<"Down">>))} :
           /\ editors' = after.editors
           /\ active_index' = after.active_index
    /\ nev' = nev + 1
    /\ ev' = [EvNone EXCEPT !.kind = "down", !.active0 = active_index,
                            !.row0 = editors[active_index].ta.row]
    /\ UNCHANGED <<last_area, chain, last_action, base, listVars, active_pane, focusVars, appVars>>

NextDown == MoveDown

SpecDown == InitDown /\ [][NextDown]_vars

----------------------------------------------------------------------------
(* One editor, built with some content and cursor, executing actions *)

BufferContents ==
    { << <<>> >>,
      << <<"a", "b">> >>,
      << <<"a">>, <<"b">> >>,
      << <<"a", " ", "b">>, <<"c">> >>,
      << <<"a">>, <<>>, <<"b", "c">> >> }

ToMoves == { <<"End">>, <<"WordForward">>, <<"Down">>, <<"Left">> }

AllMoves ==
    { <<m>> : m \in {"Forward", "Back", "Up", "Down", "Head", "End", "Top", "Bottom",
                     "WordForward", "WordEnd", "WordBack", "ParagraphForward",
                     "ParagraphBack", "Left", "Right"} }

TextObjects ==
    { <<o>> : o \in {"Char", "WordInner", "WordAround", "ParagraphInner", "ParagraphAround",
                     "Line", "Selection"} }
    \cup { <<"To", m>> : m \in ToMoves }

PendingActions ==
    { <<op, m>> : op \in {"Delete", "Change", "Yank", "Select"},
                  m \in {"None", "Inner", "Around"} }
    \cup { <<"ReplaceChar">> }

EditorActionSet ==
    { SetMode(m) : m \in {"Normal", "Insert", "Replace", "VisualChar", "VisualLine"} }
    \cup { MoveCursor(m) : m \in AllMoves }
    \cup { <<"Insert", <<"Line">> >>, <<"Paste">>, <<"Undo">>, <<"Redo">>,
           <<"ReplaceChar", "x">> }
    \cup { <<"ApplyInput", k>> : k \in {Plain("x"), Plain("Enter"), Plain("Backspace")} }
    \cup { <<verb, o>> : verb \in {"Delete", "Yank", "Select"}, o \in TextObjects }
    \cup { <<"Pending", p>> : p \in PendingActions }
    \cup { EscapeToNormal, handle_normal_mode_input(Plain("o")),
           handle_normal_mode_input(Shift("O")) }
    \cup { Operate("Change", <<o>>) : o \in {"ParagraphInner", "ParagraphAround", "Selection"} }

ActionClass(action) ==
    CASE action[1] = "Pending" -> "Pending"
      [] action[1] = "Paste" -> "Paste"
      [] action[1] = "Delete" /\ action[2][1] = "Line" -> "DeleteLine"
      [] action[1] = "Yank" /\ action[2][1] = "Line" -> "YankLine"
      [] action[1] = "Delete" /\ action[2][1] = "To" -> "DeleteTo"
      [] action[1] = "Yank" /\ action[2][1] = "To" -> "YankTo"
      [] action[1] = "Delete" /\ action[2][1] = "Selection" -> "DeleteSelection"
      [] action[1] = "Yank" /\ action[2][1] = "Selection" -> "YankSelection"
      [] action[1] \in {"Delete", "Yank", "Select"}
         /\ action[2][1] \in {"ParagraphInner", "ParagraphAround"} -> "Paragraph"
      [] action[1] = "MultiAction" /\ action[2][1][1] = "Delete"
         /\ action[2][1][2][1] \in {"ParagraphInner", "ParagraphAround"} -> "Paragraph"
      [] action[1] = "MultiAction" /\ action[2][1] = <<"Delete", <<"Selection">> >>
         /\ action[2][2] = SetMode("Insert") -> "ChangeSelection"
      [] action[1] = "MultiAction" /\ Len(action[2]) = 3
         /\ action[2][1][1] = "MoveCursor" /\ action[2][2][1] = "Insert" -> "OpenBelow"
      [] action[1] = "MultiAction" /\ Len(action[2]) = 4
         /\ action[2][1][1] = "MoveCursor" /\ action[2][3][1] = "Insert" -> "OpenAbove"
      [] action[1] = "SetMode" /\ action[2] = "Normal" -> "SetModeNormal"
      [] action[1] = "ReplaceChar" -> "ReplaceChar"
      [] OTHER -> "Other"

Snapshot(e) == [lines |-> e.ta.lines, row |-> e.ta.row, col |-> e.ta.col]

\* the same with the mode, the selection anchor, the register and the yank type
SnapshotMode(e) ==
    [lines |-> e.ta.lines, row |-> e.ta.row, col |-> e.ta.col, mode |-> e.mode,
     sel |-> e.ta.sel, yank |-> e.ta.yank, yank_type |-> e.yank_type]

\* the text area before an operator acts on To(motion), with the motion
SnapshotTo(e, motion) == [ta |-> e.ta, motion |-> motion]

InitEditor ==
    /\ \E single \in BOOLEAN, content \in BufferContents, r \in 0..MaxRow, c \in 0..MaxCol :
          /\ single => Len(content) = 1
          /\ editors = [i \in {0} |->
                          set_cursor_pos(
                              with_content(with_single_line(Editor_default, single), content),
                              r, c)]
    /\ active_index = 0
    /\ last_area = FALSE
    /\ nev = 0
    /\ ev = EvNone
    /\ chain = [i \in {0} |-> 0]
    /\ last_action = "none"
    /\ base = <<>>
    /\ ListIdle
    /\ ScreenIdle
    /\ FocusIdle
    /\ AppIdle

ExecuteAction ==
    /\ nev < MaxCalls
    /\ \E action \in EditorActionSet :
          LET class == ActionClass(action)
              after_yank == class = "Paste" /\ last_action = "YankLine"
          IN  /\ editors' = [editors EXCEPT ![0] = Editor_execute_action(@, action)]
              /\ last_action' = IF after_yank THEN "PasteAfterYankLine" ELSE class
              /\ base' = IF class \in {"YankLine", "DeleteLine", "Paragraph"}
                         THEN Snapshot(editors[0])
                         ELSE IF class \in {"SetModeNormal", "ReplaceChar", "ChangeSelection",
                                          "OpenBelow", "OpenAbove"}
                         THEN SnapshotMode(editors[0])
                         ELSE IF class \in {"YankTo", "DeleteTo"}
                         THEN SnapshotTo(editors[0], action[2][2])
                         ELSE IF after_yank THEN base
                         ELSE <<>>
    /\ nev' = nev + 1
    /\ UNCHANGED <<active_index, last_area, ev, chain, listVars, active_pane, focusVars, appVars>>

NextEditor == ExecuteAction

SpecEditor == InitEditor /\ [][NextEditor]_vars

----------------------------------------------------------------------------
(* MultiSelectListState, src/ui/multiselect/state.rs *)

\* select(index): the new (selected, offset)
StateSelect(index, off) ==
    [selected |-> index, offset |-> IF index = NoIdx THEN 0 ELSE off]

\* select_next: the index handed to select
NextIndex(sel) ==
    IF sel = NoIdx THEN 0 ELSE IF sel = USIZE_MAX THEN USIZE_MAX ELSE sel + 1

\* select_previous: the index handed to select
PreviousIndex(sel) ==
    IF sel = NoIdx THEN USIZE_MAX ELSE SatSub(sel, 1)

----------------------------------------------------------------------------
(* MultiSelectList::get_items_bounds, src/ui/multiselect/mod.rs *)

\* a first loop that leaves the last row of the viewport unused (>= for >)
RECURSIVE FitFromOffsetStrict(_, _, _, _)
FitFromOffsetStrict(n, last, height, max_height) ==
    IF last >= n \/ height + ITEM_HEIGHT >= max_height
    THEN [last |-> last, height |-> height]
    ELSE FitFromOffsetStrict(n, last + 1, height + ITEM_HEIGHT, max_height)

\* first loop: how many items fit from the offset
RECURSIVE FitFromOffset(_, _, _, _)
FitFromOffset(n, last, height, max_height) ==
    IF last >= n \/ height + ITEM_HEIGHT > max_height
    THEN [last |-> last, height |-> height]
    ELSE FitFromOffset(n, last + 1, height + ITEM_HEIGHT, max_height)

\* the padding loop of apply_scroll_padding_to_selected_index
RECURSIVE ReducePadding(_, _, _, _)
ReducePadding(sel, padding, last_valid_index, max_height) ==
    IF padding = 0 THEN 0
    ELSE LET lo == SatSub(sel, padding)
             hi == Min(sel + padding, last_valid_index)
             height_around_selected == (hi - lo + 1) * ITEM_HEIGHT
         IN  IF height_around_selected <= max_height THEN padding
             ELSE ReducePadding(sel, padding - 1, last_valid_index, max_height)

apply_scroll_padding_to_selected_index(n, padding0, sel0, max_height, first, last) ==
    IF sel0 = NoIdx THEN NoIdx
    ELSE LET last_valid_index == SatSub(n, 1)
             sel == Min(sel0, last_valid_index)
             padding == ReducePadding(sel, padding0, last_valid_index, max_height)
         IN  Min(IF Min(sel + padding, last_valid_index) >= last THEN sel + padding
                 ELSE IF SatSub(sel, padding) < first THEN SatSub(sel, padding)
                 ELSE sel,
                 last_valid_index)

\* inner loop of the forward pass: hide previous items
RECURSIVE HidePrevious(_, _)
HidePrevious(first, height) ==
    IF height > ITEM_HEIGHT
    THEN HidePrevious(first + 1, SatSub(height, ITEM_HEIGHT))
    ELSE [first |-> first, height |-> height]

\* a forward pass that stops one item early (> for >=)
RECURSIVE GrowForwardMutant(_, _, _, _)
GrowForwardMutant(index, first, last, height) ==
    IF index > last
    THEN LET h == HidePrevious(first, height + ITEM_HEIGHT)
         IN  GrowForwardMutant(index, h.first, last + 1, h.height)
    ELSE [first |-> first, last |-> last, height |-> height]

\* forward pass: grow the window until index_to_display is inside
RECURSIVE GrowForward(_, _, _, _)
GrowForward(index, first, last, height) ==
    IF index >= last
    THEN LET h == HidePrevious(first, height + ITEM_HEIGHT)
         IN  GrowForward(index, h.first, last + 1, h.height)
    ELSE [first |-> first, last |-> last, height |-> height]

\* inner loop of the backward pass: drop items beyond the viewable height
RECURSIVE DropLast(_, _, _)
DropLast(last, height, max_height) ==
    IF height > max_height
    THEN DropLast(last - 1, SatSub(height, ITEM_HEIGHT), max_height)
    ELSE [last |-> last, height |-> height]

\* a backward pass that moves the window one item above the item to display
\* (<= for <)
RECURSIVE GrowBackwardPast(_, _, _, _, _)
GrowBackwardPast(index, first, last, height, max_height) ==
    IF index <= first
    THEN LET d == DropLast(last, height + ITEM_HEIGHT, max_height)
         IN  GrowBackwardPast(index, first - 1, d.last, d.height, max_height)
    ELSE [first |-> first, last |-> last]

\* backward pass
RECURSIVE GrowBackward(_, _, _, _, _)
GrowBackward(index, first, last, height, max_height) ==
    IF index < first
    THEN LET d == DropLast(last, height + ITEM_HEIGHT, max_height)
         IN  GrowBackward(index, first - 1, d.last, d.height, max_height)
    ELSE [first |-> first, last |-> last]

get_items_bounds(n, padding, sel, off0, max_height) ==
    LET off == Min(off0, SatSub(n, 1))
        fit == FitFromOffset(n, off, 0, max_height)
        shown == apply_scroll_padding_to_selected_index(n, padding, sel, max_height,
                                                        off, fit.last)
        index_to_display == IF shown = NoIdx THEN off ELSE shown
        fwd == GrowForward(index_to_display, off, fit.last, fit.height)
        bwd == GrowBackward(index_to_display, fwd.first, fwd.last, fwd.height, max_height)
    IN  <<bwd.first, bwd.last>>

----------------------------------------------------------------------------
(* The render pass, src/ui/multiselect/mod.rs, StatefulWidget::render *)

\* the list state after one render pass over n items in a list area of height h
RenderState(n, padding, sel, off, h) ==
    IF h = 0 THEN [selected |-> sel, offset |-> off, bounds |-> <<>>]
    ELSE IF n = 0 THEN [selected |-> NoIdx, offset |-> 0, bounds |-> <<>>]
    ELSE LET s == IF sel # NoIdx /\ sel >= n THEN SatSub(n, 1) ELSE sel
             b == get_items_bounds(n, padding, s, off, h)
         IN  [selected |-> s, offset |-> b[1], bounds |-> b]

----------------------------------------------------------------------------
(* The list driven by selection steps and render passes *)

InitList ==
    /\ \E n \in 0..MaxItems : items = [i \in 1..n |-> i]
    /\ selected = IF items = <<>> THEN NoIdx ELSE 0
    /\ offset = 0
    /\ visual_start = NoIdx
    /\ scroll_padding = 0
    /\ list_height \in 0..MaxHeight
    /\ bounds = <<>>
    /\ lpc = "idle"
    /\ lbase = <<>>
    /\ EditorIdle
    /\ ScreenIdle
    /\ FocusIdle
    /\ AppIdle

SelectNext ==
    /\ selected = NoIdx \/ selected < Len(items) + MaxOver
    /\ LET s == StateSelect(NextIndex(selected), offset)
       IN  selected' = s.selected /\ offset' = s.offset
    /\ lpc' = "idle"
    /\ UNCHANGED <<items, visual_start, scroll_padding, list_height, bounds, lbase>>
    /\ UNCHANGED <<editorVars, active_pane, focusVars, appVars>>

SelectPrevious ==
    /\ selected = NoIdx \/ selected <= Len(items) + MaxOver
    /\ LET s == StateSelect(PreviousIndex(selected), offset)
       IN  selected' = s.selected /\ offset' = s.offset
    /\ lpc' = "idle"
    /\ UNCHANGED <<items, visual_start, scroll_padding, list_height, bounds, lbase>>
    /\ UNCHANGED <<editorVars, active_pane, focusVars, appVars>>

Render ==
    /\ LET r == RenderState(Len(items), scroll_padding, selected, offset, list_height)
       IN  /\ selected' = r.selected
           /\ offset' = r.offset
           /\ bounds' = r.bounds
    /\ lpc' = "rendered"
    /\ UNCHANGED <<items, visual_start, scroll_padding, list_height, lbase>>
    /\ UNCHANGED <<editorVars, active_pane, focusVars, appVars>>

NextList == SelectNext \/ SelectPrevious \/ Render

SpecList == InitList /\ [][NextList]_vars

----------------------------------------------------------------------------
(* get_items_bounds as a function of its inputs *)

InitBounds ==
    /\ \E n \in 1..MaxItems : items = [i \in 1..n |-> i]
    /\ selected \in 0..(Len(items) - 1)
    /\ offset \in 0..MaxItems
    /\ visual_start = NoIdx
    /\ scroll_padding \in 0..MaxPadding
    /\ list_height \in ITEM_HEIGHT..MaxHeight
    /\ bounds = <<>>
    /\ lpc = "in"
    /\ lbase = <<>>
    /\ EditorIdle
    /\ ScreenIdle
    /\ FocusIdle
    /\ AppIdle

ApplyBounds ==
    /\ lpc = "in"
    /\ bounds' = get_items_bounds(Len(items), scroll_padding, selected, offset, list_height)
    /\ lpc' = "out"
    /\ UNCHANGED <<items, selected, offset, visual_start, scroll_padding, list_height, lbase>>
    /\ UNCHANGED <<editorVars, active_pane, focusVars, appVars>>

NextBounds == ApplyBounds

SpecBounds == InitBounds /\ [][NextBounds]_vars

\* the same for every selection, none included, and every viewport height from
\* one row up, the heights below the height of an item among them
InitWindow ==
    /\ \E n \in 1..MaxItems : items = [i \in 1..n |-> i]
    /\ selected \in {NoIdx} \cup 0..(Len(items) - 1)
    /\ offset \in 0..MaxItems
    /\ visual_start = NoIdx
    /\ scroll_padding \in 0..MaxPadding
    /\ list_height \in 1..MaxHeight
    /\ bounds = <<>>
    /\ lpc = "in"
    /\ lbase = <<>>
    /\ EditorIdle
    /\ ScreenIdle
    /\ FocusIdle
    /\ AppIdle

SpecWindow == InitWindow /\ [][NextBounds]_vars

----------------------------------------------------------------------------
(* The render pass repeated over an unchanged list: every list, selection,   *)
(* persisted offset, scroll padding and viewport height                      *)

InitRender ==
    /\ \E n \in 1..MaxItems : items = [i \in 1..n |-> i]
    /\ selected \in 0..(Len(items) - 1)
    /\ offset \in 0..MaxItems
    /\ visual_start = NoIdx
    /\ scroll_padding \in 0..MaxPadding
    /\ list_height \in ITEM_HEIGHT..MaxHeight
    /\ bounds = <<>>
    /\ lpc = "idle"
    /\ lbase = <<>>
    /\ EditorIdle
    /\ ScreenIdle
    /\ FocusIdle
    /\ AppIdle

NextRender == Render

SpecRender == InitRender /\ [][NextRender]_vars

----------------------------------------------------------------------------
(* TaskList, src/ui/tasklist.rs.  A task list is a record                    *)
(*   items : the tasks, as a sequence of identities                          *)
(*   selected, offset, visual_start : its MultiSelectListState               *)

\* a start_visual_selection that pins the selection again when one is pinned
start_visual_selection_again(l) ==
    IF l.selected # NoIdx THEN [l EXCEPT !.visual_start = l.selected] ELSE l

start_visual_selection(l) ==
    IF l.visual_start = NoIdx /\ l.selected # NoIdx
    THEN [l EXCEPT !.visual_start = l.selected]
    ELSE l

end_visual_selection(l) == [l EXCEPT !.visual_start = NoIdx]

is_in_visual_mode(l) == l.visual_start # NoIdx

\* MultiSelectListState::select on the state of a task list
ListSelect(l, index) ==
    [l EXCEPT !.selected = index, !.offset = IF index = NoIdx THEN 0 ELSE @]

\* usize::saturating_add
SatAdd(a, b) == IF a >= USIZE_MAX - b THEN USIZE_MAX ELSE a + b

scroll_down_by(l, amount) ==
    ListSelect(l, SatAdd(IF l.selected = NoIdx THEN 0 ELSE l.selected, amount))

scroll_up_by(l, amount) ==
    ListSelect(l, SatSub(IF l.selected = NoIdx THEN 0 ELSE l.selected, amount))

remove_task(l, index) ==
    IF index < Len(l.items)
    THEN [l EXCEPT !.items = Take(@, index) \o Drop(@, index + 1)]
    ELSE l

remove_range_inclusive(l, start, end) ==
    IF start < Len(l.items) /\ end < Len(l.items) /\ start <= end
    THEN [l EXCEPT !.items = Take(@, start) \o Drop(@, end + 1)]
    ELSE l

remove_selected_tasks(l) ==
    IF l.selected = NoIdx THEN l
    ELSE IF l.visual_start # NoIdx
    THEN end_visual_selection(
             ListSelect(remove_range_inclusive(l, Min(l.visual_start, l.selected),
                                               Max(l.visual_start, l.selected)),
                        Min(l.visual_start, l.selected)))
    ELSE ListSelect(remove_task(l, l.selected), l.selected)

TaskList_activate(l) ==
    IF l.items = <<>> THEN ListSelect(l, NoIdx)
    ELSE IF l.selected = NoIdx THEN ListSelect(l, 0)
    ELSE l

\* the selection fix-up of filter_tasks, after the retain
AfterRetain(l) ==
    IF l.items = <<>> THEN ListSelect(l, NoIdx)
    ELSE IF l.selected # NoIdx /\ l.selected >= Len(l.items)
    THEN ListSelect(l, Len(l.items) - 1)
    ELSE l

\* filter_tasks with a filter that keeps the tasks of the set keep
filter_tasks(l, keep) ==
    AfterRetain([l EXCEPT !.items = SelectSeq(@, LAMBDA id : id \in keep)])

\* the selection fix-up of set_tasks, after the assignment
AfterAssign(l) ==
    IF l.items = <<>> THEN ListSelect(l, NoIdx)
    ELSE IF l.selected = NoIdx THEN ListSelect(l, 0)
    ELSE l

set_tasks(l, tasks) == AfterAssign([l EXCEPT !.items = tasks])

\* the keys of the task list; "x" stands for every key no arm matches
ListKeys == {"j", "Down", "k", "Up", "g", "G", "v", "V", "d", "Esc", "x"}

TaskList_handle_key_event(l, key) ==
    CASE key \in {"j", "Down"} -> ListSelect(l, NextIndex(l.selected))
      [] key \in {"k", "Up"} -> ListSelect(l, PreviousIndex(l.selected))
      [] key = "g" -> ListSelect(l, 0)
      [] key = "G" -> ListSelect(l, USIZE_MAX)
      [] key = "d" -> remove_selected_tasks(l)
      [] key = "Esc" -> IF is_in_visual_mode(l) THEN end_visual_selection(l) ELSE l
      [] key \in {"v", "V"} -> IF is_in_visual_mode(l) THEN l ELSE start_visual_selection(l)
      [] OTHER -> l

\* TaskList::draw in a list area of height h: nothing is rendered, and the list
\* state is left alone, when there are no tasks
TaskList_draw(l, h) ==
    IF Len(l.items) = 0 THEN [list |-> l, bounds |-> <<>>]
    ELSE LET r == RenderState(Len(l.items), 0, l.selected, l.offset, h)
         IN  [list |-> [l EXCEPT !.selected = r.selected, !.offset = r.offset],
              bounds |-> r.bounds]

----------------------------------------------------------------------------
(* The task list of src/ui/normalmode.rs driven by refreshes, filters, keys  *)
(* and draws                                                                 *)

TheList ==
    [items |-> items, selected |-> selected, offset |-> offset,
     visual_start |-> visual_start]

\* the list variables start with the fields of l
ListBecomes0(l) ==
    /\ items = l.items
    /\ selected = l.selected
    /\ offset = l.offset
    /\ visual_start = l.visual_start

\* the list variables take the fields of l
ListBecomes(l) ==
    /\ items' = l.items
    /\ selected' = l.selected
    /\ offset' = l.offset
    /\ visual_start' = l.visual_start

InitTasks ==
    /\ items = <<>>
    /\ selected = NoIdx
    /\ offset = 0
    /\ visual_start = NoIdx
    /\ scroll_padding = 0
    /\ list_height \in {ITEM_HEIGHT, MaxTaskHeight}
    /\ bounds = <<>>
    /\ lpc = "idle"
    /\ lbase = <<>>
    /\ EditorIdle
    /\ ScreenIdle
    /\ FocusIdle
    /\ AppIdle

SetTasks ==
    /\ \E n \in 0..MaxTasks : ListBecomes(set_tasks(TheList, [i \in 1..n |-> i]))
    /\ lpc' = "idle"
    /\ lbase' = <<>>
    /\ bounds' = <<>>
    /\ UNCHANGED <<scroll_padding, list_height>>
    /\ UNCHANGED <<editorVars, active_pane, focusVars, appVars>>

FilterTasks ==
    /\ \E k \in 0..MaxTasks : ListBecomes(filter_tasks(TheList, 1..k))
    /\ lpc' = "idle"
    /\ lbase' = <<>>
    /\ bounds' = <<>>
    /\ UNCHANGED <<scroll_padding, list_height>>
    /\ UNCHANGED <<editorVars, active_pane, focusVars, appVars>>

ActivateList ==
    /\ ListBecomes(TaskList_activate(TheList))
    /\ lpc' = "idle"
    /\ lbase' = <<>>
    /\ bounds' = <<>>
    /\ UNCHANGED <<scroll_padding, list_height>>
    /\ UNCHANGED <<editorVars, active_pane, focusVars, appVars>>

ListKeyEvent ==
    /\ \E key \in ListKeys :
          /\ key \in {"j", "Down"} =>
                selected \in {NoIdx, USIZE_MAX} \/ selected < Len(items) + MaxOver
          /\ key \in {"k", "Up"} => selected = NoIdx \/ selected <= Len(items) + MaxOver
          /\ ListBecomes(TaskList_handle_key_event(TheList, key))
          /\ lpc' = IF key = "d" THEN "removed" ELSE "idle"
          /\ lbase' = IF key = "d" THEN TheList ELSE <<>>
    /\ bounds' = <<>>
    /\ UNCHANGED <<scroll_padding, list_height>>
    /\ UNCHANGED <<editorVars, active_pane, focusVars, appVars>>

DrawList ==
    /\ \E d \in {TaskList_draw(TheList, list_height)} :
          /\ ListBecomes(d.list)
          /\ bounds' = d.bounds
    /\ lpc' = "rendered"
    /\ lbase' = <<>>
    /\ UNCHANGED <<scroll_padding, list_height>>
    /\ UNCHANGED <<editorVars, active_pane, focusVars, appVars>>

----------------------------------------------------------------------------
(* The list state called operation by operation, between draws *)

\* a task list of some tasks with the default list state
InitState ==
    /\ \E n \in 0..MaxStateItems : items = [i \in 1..n |-> i]
    /\ selected = NoIdx
    /\ offset = 0
    /\ visual_start = NoIdx
    /\ scroll_padding = 0
    /\ list_height = MaxTaskHeight
    /\ bounds = <<>>
    /\ lpc = "idle"
    /\ lbase = <<>>
    /\ EditorIdle
    /\ ScreenIdle
    /\ FocusIdle
    /\ AppIdle

\* the calls of MultiSelectListState, and the removal of TaskList
StateOps ==
    { <<"select", i>> : i \in {NoIdx, USIZE_MAX} \cup 0..MaxStateItems }
    \cup { <<op>> : op \in {"select_next", "select_previous", "select_first", "select_last",
                            "start_visual_selection", "end_visual_selection",
                            "remove_selected_tasks"} }
    \cup { <<op, amount>> : op \in {"scroll_down_by", "scroll_up_by"}, amount \in 1..MaxScroll }

ApplyStateOp(l, op) ==
    CASE op[1] = "select" -> ListSelect(l, op[2])
      [] op[1] = "select_next" -> ListSelect(l, NextIndex(l.selected))
      [] op[1] = "select_previous" -> ListSelect(l, PreviousIndex(l.selected))
      [] op[1] = "select_first" -> ListSelect(l, 0)
      [] op[1] = "select_last" -> ListSelect(l, USIZE_MAX)
      [] op[1] = "scroll_down_by" -> scroll_down_by(l, op[2])
      [] op[1] = "scroll_up_by" -> scroll_up_by(l, op[2])
      [] op[1] = "start_visual_selection" -> start_visual_selection(l)
      [] op[1] = "end_visual_selection" -> end_visual_selection(l)
      [] op[1] = "remove_selected_tasks" -> remove_selected_tasks(l)

\* the operations that move the selection by steps run while it is within
\* MaxOver of the list
StateOp ==
    /\ \E op \in StateOps :
          /\ op[1] \in {"select_next", "scroll_down_by"} =>
                selected \in {NoIdx, USIZE_MAX} \/ selected < Len(items) + MaxOver
          /\ op[1] \in {"select_previous", "scroll_up_by"} =>
                selected = NoIdx \/ selected <= Len(items) + MaxOver
          /\ ListBecomes(ApplyStateOp(TheList, op))
          /\ lpc' = op[1]
    /\ lbase' = TheList
    /\ bounds' = <<>>
    /\ UNCHANGED <<scroll_padding, list_height>>
    /\ UNCHANGED <<editorVars, active_pane, focusVars, appVars>>

NextState == DrawList \/ StateOp

SpecState == InitState /\ [][NextState]_vars

NextTasks == SetTasks \/ FilterTasks \/ ActivateList \/ ListKeyEvent \/ DrawList

SpecTasks == InitTasks /\ [][NextTasks]_vars

----------------------------------------------------------------------------
(* NormalModeUI, src/ui/normalmode.rs: the task list beside the task editor. *)
(* A screen is a record                                                      *)
(*   list : the task list      editors, active_index : the task editor       *)
(*   active_pane : "TaskList" or "TaskEditor"                                *)

\* the panes of the task editor: Title, Date, Time and Description
TaskPanes == 0..3

\* TaskEditor::new
TaskEditor_new ==
    [i \in TaskPanes |-> with_single_line(Editor_default, i < 3)]

\* TaskEditor::is_in_insert_mode
is_in_insert_mode(eds, active) ==
    IF active # NoIdx /\ active \in DOMAIN eds
    THEN eds[active].mode \in {"Insert", "VisualChar", "VisualLine"}
    ELSE FALSE

\* the key of the task list a key event carries: its KeyCode, whatever the
\* modifiers
ListKeyOf(input) == IF input.key \in ListKeys THEN input.key ELSE "x"

\* the screen with the task editor in the state r
WithEditor(scr, r, pane) ==
    [scr EXCEPT !.editors = r.editors, !.active_index = r.active_index,
                !.active_pane = pane]

\* NormalModeUI::handle_key_event.  With no task in the list get_current_task
\* is None and the end of the handler loads nothing in the task editor.
NormalModeUI_handle_key_event(scr, input) ==
    IF scr.active_pane = "TaskList"
    THEN IF input.key = "Enter"
         THEN WithEditor(scr, activate(scr.editors, scr.active_index), "TaskEditor")
         ELSE [scr EXCEPT !.list = TaskList_handle_key_event(@, ListKeyOf(input))]
    ELSE IF input.key = "Esc" /\ ~is_in_insert_mode(scr.editors, scr.active_index)
    THEN [WithEditor(scr, deactivate(scr.editors, scr.active_index), "TaskList")
            EXCEPT !.list = TaskList_activate(@)]
    ELSE WithEditor(scr, handle_editor_event(scr.editors, scr.active_index, input),
                    "TaskEditor")

----------------------------------------------------------------------------
(* The screen driven by key events, before a refresh has delivered a task *)

\* the keys that reach the screen: App::handle_key_event keeps ctrl-c
ScreenKeys == Keys \ {Ctrl("c")}

TheScreen ==
    [list |-> TheList, editors |-> editors, active_index |-> active_index,
     active_pane |-> active_pane]

\* NormalModeUI::new: the list activated, the task editor deactivated
InitScreen ==
    /\ ListBecomes0(TaskList_activate([items |-> <<>>, selected |-> NoIdx, offset |-> 0,
                                       visual_start |-> NoIdx]))
    /\ scroll_padding = 0 /\ list_height = 0 /\ bounds = <<>> /\ lpc = "idle"
    /\ lbase = <<>>
    /\ \E r \in {deactivate(TaskEditor_new, 0)} :
           editors = r.editors /\ active_index = r.active_index
    /\ last_area = FALSE
    /\ nev = 0
    /\ ev = EvNone
    /\ chain = [i \in TaskPanes |-> 0]
    /\ last_action = "none"
    /\ base = <<>>
    /\ active_pane = "TaskList"
    /\ FocusIdle
    /\ AppIdle

\* what a key event of the screen leaves in ev: the key, and the pane of the
\* task editor that was active with its mode, when the task editor had the focus
ScreenObserved(scr, input) ==
    [EvNone EXCEPT !.kind = "key", !.input = input,
                   !.pane = IF scr.active_pane = "TaskEditor" THEN scr.active_index
                            ELSE NoIdx,
                   !.mode0 = IF scr.active_pane = "TaskEditor" /\ scr.active_index # NoIdx
                             THEN scr.editors[scr.active_index].mode ELSE ""]

ScreenKeyEvent ==
    /\ nev < MaxScreenEvents
    /\ \E input \in ScreenKeys :
          \E after \in {NormalModeUI_handle_key_event(TheScreen, input)} :
              /\ ListBecomes(after.list)
              /\ editors' = after.editors
              /\ active_index' = after.active_index
              /\ active_pane' = after.active_pane
              /\ chain' = Chained(editors,
                                  IF active_pane = "TaskEditor" /\ after.active_pane = "TaskEditor"
                                  THEN active_index ELSE NoIdx,
                                  after.editors)
              /\ ev' = ScreenObserved(TheScreen, input)
    /\ nev' = nev + 1
    /\ UNCHANGED <<scroll_padding, list_height, bounds, lpc, lbase, last_area, last_action,
                   base, focusVars, appVars>>

NextScreen == ScreenKeyEvent

SpecScreen == InitScreen /\ [][NextScreen]_vars

----------------------------------------------------------------------------
C5_SelectedInsideWindowNoPadding ==
    (lpc = "out" /\ scroll_padding = 0) => (bounds[1] <= selected /\ selected < bounds[2])

(* C6: after every render pass that follows single-index selection steps,    *)
(* the selected index lies in [offset, offset + visible count); the case of  *)
(* the claim is 10 items of height 3 in a viewport of height 9.              *)
C6_SelectedVisibleAfterRender ==
    (lpc = "rendered" /\ items # <<>> /\ list_height >= ITEM_HEIGHT) =>
        /\ selected # NoIdx
        /\ bounds # <<>>
        /\ offset = bounds[1]
        /\ offset <= selected
        /\ selected < offset + (bounds[2] - bounds[1])

C6_Witness ==
    /\ lpc = "rendered"
    /\ Len(items) = 10
    /\ list_height = 9
    /\ selected = 9
    /\ offset > 0

----------------------------------------------------------------------------
(* C2: for every pane, single-line or multi-line, every state and every     *)
(* action other than Pending(_), the pending action is None when             *)
(* execute_action returns.                                                   *)
C2_NoPendingAfterAction ==
    last_action \notin {"none", "Pending"} => ~IsArmed(editors[0])

----------------------------------------------------------------------------
\* a sequence without its element of 0-based index r
RemoveAt(seq, r) == Take(seq, r) \o Drop(seq, r + 1)

\* a sequence with x as the new element of 0-based index r
InsertAt(seq, r, x) == Take(seq, r) \o <<x>> \o Drop(seq, r)

(* C7: Delete(Line) on a buffer of n >= 2 lines with the cursor on any row r *)
(* removes exactly line r: n - 1 lines remain, the others unchanged and in   *)
(* order, and the cursor is at its row and column from before the            *)
(* operation, clamped to the remaining text.                                 *)
C7_DeleteLineRemovesExactlyThatLine ==
    (last_action = "DeleteLine" /\ Len(base.lines) >= 2) =>
        LET t == editors[0].ta
        IN  /\ t.lines = RemoveAt(base.lines, base.row)
            /\ Len(t.lines) = Len(base.lines) - 1
            /\ t.row = Min(base.row, Len(t.lines) - 1)
            /\ t.col = Min(base.col, LineLen(t, t.row))

\* dd on the last of three lines, from a column the line above does not have
C7_Witness ==
    /\ last_action = "DeleteLine"
    /\ Len(base.lines) = 3 /\ base.row = 2 /\ base.col = 2
    /\ editors[0].ta.lines = << <<"a">>, <<>> >>
    /\ editors[0].ta.row = 1 /\ editors[0].ta.col = 0

----------------------------------------------------------------------------
(* C8: in a multi-line pane, for every buffer and cursor row r (first,       *)
(* middle or last), Yank(Line) followed by Paste leaves the original lines   *)
(* unchanged and in order and inserts exactly one new line, equal to line r, *)
(* directly below row r, with the cursor at column 0 of the inserted line.   *)
C8_YankLinePasteDuplicatesLine ==
    (last_action = "PasteAfterYankLine" /\ ~editors[0].single_line) =>
        LET t == editors[0].ta
        IN  /\ t.lines = InsertAt(base.lines, base.row + 1, base.lines[base.row + 1])
            /\ t.row = base.row + 1
            /\ t.col = 0

----------------------------------------------------------------------------
(* C1: after a Normal-mode operator key (d, c, y, s, v, r) arms a pending    *)
(* action, the pending action is None after at most two further key events   *)
(* of the pane: the first further key arms it again with a modifier (i or a  *)
(* only), resolves it or aborts it; the second always resolves or aborts.    *)
(* A pane thus never counts more than two key events with its pending action *)
(* armed, the second of them only with a modifier that no key arms again.    *)
C1_PendingResolvesWithinTwoKeys ==
    /\ \A i \in DOMAIN editors :
          /\ chain[i] <= 2
          /\ (chain[i] = 0) = ~IsArmed(editors[i])
          /\ chain[i] = 1 =>
                \/ editors[i].pending = <<"ReplaceChar">>
                \/ editors[i].pending[2] = "None"
          /\ chain[i] = 2 =>
                /\ editors[i].pending # <<"ReplaceChar">>
                /\ editors[i].pending[2] \in {"Inner", "Around"}
    /\ ev.kind = "arm" => ev.key \in {"d", "c", "y", "s", "v", "r"}
    /\ ev.kind = "rearm" => ev.key \in {"i", "a"}

\* d, i, w: the second further key has resolved the operator on the inner word
C1_Witness ==
    /\ ev.kind = "resolve"
    /\ nev = 3
    /\ active_index = 0
    /\ editors[0].yank_type = <<"WordInner">>
    /\ ~IsArmed(editors[0])

----------------------------------------------------------------------------
(* C3: in a composite, after any sequence of key events, on_click calls and  *)
(* activate / deactivate calls, no pane other than the active one holds a    *)
(* pending action.                                                           *)
C3_OnlyActivePaneHoldsPending ==
    \A i \in DOMAIN editors : i # active_index => ~IsArmed(editors[i])

----------------------------------------------------------------------------
(* C4: a key that the armed pending action does not accept sets the pending  *)
(* action to None and leaves the text, the cursor, the mode, the selection,  *)
(* the yank register and the yank type of the pane unchanged; the key is     *)
(* consumed, not read again as a Normal-mode command.                        *)
C4_AbortLeavesPaneUnchanged ==
    [][(nev' # nev /\ ev'.kind = "abort") =>
          /\ active_index # NoIdx
          /\ IsArmed(editors[active_index])
          /\ active_index' = active_index
          /\ editors' = [editors EXCEPT ![active_index].pending = NoPending]]_vars

\* a click on the second pane, d, then x: x, a command of Normal mode, has aborted
\* the operator
C4_Witness ==
    /\ ev.kind = "abort"
    /\ nev = 3
    /\ active_index = 1
    /\ ~IsArmed(editors[1])
    /\ editors[1].ta.lines = EDITOR_CONTENT

----------------------------------------------------------------------------
(* C9: MoveCursor(Up) in a composite whose active pane i > 0 has its cursor  *)
(* on row 0 makes pane i - 1 active and moves its cursor to its last row at  *)
(* the desired column read from pane i, clamped to the length of that row;   *)
(* the text and cursor of pane i are unchanged.  If i = 0 or the cursor is   *)
(* not on row 0 the active index is unchanged and the move is made inside    *)
(* pane i.                                                                   *)
C9_UpCrossesToPreviousPane ==
    [][(nev' # nev /\ ev'.kind = "up") =>
          LET i == active_index
              p == editors[i].ta
          IN  IF i > 0 /\ p.row = 0
              THEN LET q == editors'[i - 1].ta
                   IN  /\ active_index' = i - 1
                       /\ q.lines = editors[i - 1].ta.lines
                       /\ q.row = NumLines(q) - 1
                       /\ q.col = Min(p.desired, LineLen(q, q.row))
                       /\ editors'[i] = editors[i]
              ELSE LET q == editors'[i].ta
                   IN  /\ active_index' = i
                       /\ \A j \in DOMAIN editors : j # i => editors'[j] = editors[j]
                       /\ q.lines = p.lines
                       /\ q.row = IF p.row > 0 THEN p.row - 1 ELSE p.row
                       /\ q.col = IF p.row > 0 THEN Min(p.desired, LineLen(p, p.row - 1))
                                  ELSE p.col]_vars

\* a click on row 0, column 0 of the third pane, then k: the second pane is
\* active, on its last row, at column 0 and not at the column it was left at
C9_Witness ==
    /\ ev.kind = "up" /\ ev.active0 = 2 /\ ev.row0 = 0
    /\ active_index = 1
    /\ editors[1].ta.row = 1 /\ editors[1].ta.col = 0
    /\ editors[2].ta.row = 0 /\ editors[2].ta.col = 0

----------------------------------------------------------------------------
(* C10: MoveCursor(Down) in a composite of n panes whose active pane         *)
(* i < n - 1 has its cursor on its last row makes pane i + 1 active and      *)
(* moves its cursor to row 0 at the desired column read from pane i, clamped *)
(* to the length of that row.  If i = n - 1 or the cursor is not on the last *)
(* row the active index is unchanged.                                        *)
C10_DownCrossesToNextPane ==
    [][(nev' # nev /\ ev'.kind = "down") =>
          LET i == active_index
              p == editors[i].ta
              n == NumEditors(editors)
          IN  IF i < n - 1 /\ p.row = NumLines(p) - 1
              THEN LET q == editors'[i + 1].ta
                   IN  /\ active_index' = i + 1
                       /\ q.lines = editors[i + 1].ta.lines
                       /\ q.row = 0
                       /\ q.col = Min(p.desired, LineLen(q, 0))
                       /\ editors'[i] = editors[i]
              ELSE active_index' = i]_vars

\* a click on row 0, column 3 of the second pane, then j twice: the third pane
\* is active on row 0 at column 3, the desired column, while the cursor of the
\* second pane stands at column 1
C10_Witness ==
    /\ ev.kind = "down" /\ ev.active0 = 1 /\ ev.row0 = 1
    /\ active_index = 2
    /\ editors[2].ta.row = 0 /\ editors[2].ta.col = 3
    /\ editors[1].ta.row = 1 /\ editors[1].ta.col = 1

----------------------------------------------------------------------------
\* C11: the composite's active_index is Some(valid index) if and only if the
\* composite has at least one pane, in every state reached by construction,
\* activate, deactivate, execute_action and on_click
C11_ActiveIndexValidIffPanes ==
    (active_index # NoIdx /\ active_index \in DOMAIN editors) <=> (DOMAIN editors # {})

----------------------------------------------------------------------------
\* C12: in the task list, with visual_start = a and selected = s both set, in
\* either order, d removes exactly the items of indices min(a, s) to max(a, s)
\* inclusive (to the last item where the selection was sent past it), sets
\* selected to min(a, s) and visual_start to None, whether or not a render pass
\* ran between the last selection move and the removal
C12_VisualRangeRemoved ==
    (lpc = "removed" /\ lbase.selected # NoIdx /\ lbase.visual_start # NoIdx) =>
        LET lo == Min(lbase.visual_start, lbase.selected)
            hi == Max(lbase.visual_start, lbase.selected)
            n == Len(lbase.items)
        IN  /\ items = Take(lbase.items, Min(lo, n)) \o Drop(lbase.items, IF hi >= n THEN n ELSE hi + 1)
            /\ selected = lo
            /\ visual_start = NoIdx

----------------------------------------------------------------------------
\* C13: after any sequence of task-list operations (refresh, filter, key
\* events including removals) followed by a draw, selected is None if and only
\* if there are no items, and a selected index is less than the item count
C13_SelectedValidAfterDraw ==
    lpc = "rendered" =>
        /\ (selected = NoIdx) <=> (items = <<>>)
        /\ selected # NoIdx => selected < Len(items)

----------------------------------------------------------------------------
\* C14: a pane with the single-line flag set holds exactly one line after any
\* sequence of key events in any mode (Enter in Insert mode, o, O, p after a
\* line-wise yank, and every other key)
C14_SingleLinePaneKeepsOneLine ==
    \A i \in DOMAIN editors : editors[i].single_line => NumLines(editors[i].ta) = 1

----------------------------------------------------------------------------
\* the span from the cursor of t to where the motion lands, as <<start, end>> in
\* text order
SpanTo(t, motion) ==
    LET cur == <<t.row, t.col>>
        dest == IF NextCursor(t, motion) = <<>> THEN cur ELSE NextCursor(t, motion)
    IN  IF PosLess(dest, cur) THEN <<dest, cur>> ELSE <<cur, dest>>

\* C15: operator + motion acts on the span from the cursor to where the motion
\* lands: Yank(To(motion)) puts exactly the text of the span in the register
\* and leaves the buffer unchanged, Delete(To(motion)) removes exactly that
\* text and puts it in the register (the register is read for a span that is
\* not empty)
C15_OperatorActsOnMotionSpan ==
    last_action \in {"YankTo", "DeleteTo"} =>
        LET t0 == base.ta
            span == SpanTo(t0, base.motion)
            t == editors[0].ta
        IN  /\ span[1] # span[2] => t.yank = TextBetween(t0, span[1], span[2])
            /\ t.lines = IF last_action = "YankTo" THEN t0.lines
                         ELSE LinesWithout(t0, span[1], span[2])

----------------------------------------------------------------------------
\* C16: in Visual(Line) mode, acting on the selection with y (Yank(Selection))
\* or with d (Delete(Selection)) leaves the yank type of the pane equal to
\* Line, so that a following p pastes the register as a new line
C16_VisualLineTagsYankAsLine ==
    [][(nev' # nev /\ editors[0].mode = "VisualLine"
        /\ last_action' \in {"YankSelection", "DeleteSelection"}) =>
          editors'[0].yank_type = <<"Line">>]_vars

----------------------------------------------------------------------------
\* C17: an operator resolved on a paragraph object (Delete, Yank, Select or
\* Change of ParagraphInner or ParagraphAround) leaves the text of the pane
\* and its cursor position unchanged
C17_ParagraphObjectsLeaveTextAndCursor ==
    last_action = "Paragraph" =>
        /\ editors[0].ta.lines = base.lines
        /\ editors[0].ta.row = base.row
        /\ editors[0].ta.col = base.col

\* Select on a paragraph object in the middle of a three-line buffer: the mode
\* is Visual(Char), the text and the cursor are where they were
C17_Witness ==
    /\ last_action = "Paragraph"
    /\ editors[0].mode = "VisualChar"
    /\ Len(base.lines) = 3
    /\ editors[0].ta.row = 2 /\ editors[0].ta.col = 1

----------------------------------------------------------------------------
\* C18: SetMode(Normal) is idempotent: in the state a pane is in after
\* executing it (mode Normal, no selection, no pending action, the text and
\* the cursor it had before), executing it again yields exactly the same pane
C18_SetModeNormalIdempotent ==
    last_action = "SetModeNormal" =>
        /\ Editor_execute_action(editors[0], SetMode("Normal")) = editors[0]
        /\ editors[0].mode = "Normal"
        /\ editors[0].ta.sel = <<>>
        /\ ~IsArmed(editors[0])
        /\ editors[0].ta.lines = base.lines
        /\ editors[0].ta.row = base.row
        /\ editors[0].ta.col = base.col

\* SetMode(Normal) executed in Visual(Line) mode, with its selection active
C18_Witness ==
    /\ last_action = "SetModeNormal"
    /\ base.mode = "VisualLine"
    /\ base.sel # <<>>
    /\ editors[0].mode = "Normal"

----------------------------------------------------------------------------
\* C19: with no scroll padding, when the selection lies past the end of the
\* window computed from the persisted offset, the windowing pass returns the
\* window [selected + 1 - k, selected + 1) with k = viewport_height \div
\* item_height: the items before the selection that still fit stay visible
C19_ForwardWindowKeepsFittingItems ==
    (/\ lpc = "out"
     /\ scroll_padding = 0
     /\ selected >= FitFromOffset(Len(items), Min(offset, SatSub(Len(items), 1)), 0,
                                  list_height).last) =>
        LET k == list_height \div ITEM_HEIGHT
        IN  bounds = <<selected + 1 - k, selected + 1>>

----------------------------------------------------------------------------
C20_OffsetFixedPointNoPadding ==
    [][(lpc = "rendered" /\ lpc' = "rendered" /\ scroll_padding = 0) =>
          offset' = offset]_vars

----------------------------------------------------------------------------
\* the persisted offset as the windowing pass clamps it
ClampedOffset == Min(offset, SatSub(Len(items), 1))

\* the number of whole items the viewport holds from the clamped offset
FitCount == Min(Len(items) - ClampedOffset, list_height \div ITEM_HEIGHT)

\* C21: with no scroll padding, when the selected index lies inside the window
\* obtained by filling the viewport from the clamped persisted offset, the
\* windowing pass returns that window: first is the clamped offset and last is
\* the offset plus the number of items that fit
C21_WindowUnchangedWhenSelectedInside ==
    (/\ lpc = "out"
     /\ scroll_padding = 0
     /\ ClampedOffset <= selected
     /\ selected < ClampedOffset + FitCount) =>
        bounds = <<ClampedOffset, ClampedOffset + FitCount>>

\* ten items, three of them fit from offset 2, the selection on the last of
\* the three
C21_Witness ==
    /\ lpc = "out"
    /\ scroll_padding = 0
    /\ Len(items) = 10 /\ list_height = 9
    /\ offset = 2 /\ selected = 4
    /\ bounds = <<2, 5>>

----------------------------------------------------------------------------
\* C22: the yank-type tag describes the text held in the register: it is Line
\* after a whole-line cut or copy has filled the register, and it is not Line
\* once ReplaceChar has put the typed character, an inline text, in the
\* register
C22_YankTypeDescribesRegister ==
    /\ last_action \in {"YankLine", "DeleteLine"} => editors[0].yank_type = <<"Line">>
    /\ last_action = "ReplaceChar" =>
          /\ editors[0].ta.yank = << <<"x">> >>
          /\ editors[0].yank_type # <<"Line">>

----------------------------------------------------------------------------
\* C23: ReplaceChar(c) executed in Normal or Replace mode, with the cursor
\* anywhere (the end of a line and an empty line included), leaves the number
\* of lines and the length of every line unchanged, changes no character but
\* the one under the cursor, which becomes c, and leaves the cursor at its
\* row and column
C23_ReplaceCharChangesOneCharacter ==
    (last_action = "ReplaceChar" /\ base.mode \in {"Normal", "Replace"}) =>
        LET t == editors[0].ta
        IN  /\ Len(t.lines) = Len(base.lines)
            /\ \A r \in 1..Len(base.lines) : Len(t.lines[r]) = Len(base.lines[r])
            /\ \A r \in 1..Len(base.lines) : \A c \in 1..Len(base.lines[r]) :
                   t.lines[r][c] = IF r = base.row + 1 /\ c = base.col + 1 THEN "x"
                                   ELSE base.lines[r][c]
            /\ t.row = base.row
            /\ t.col = base.col

\* the same for a cursor that stands on a character
C23_ReplaceCharOnACharacter ==
    (/\ last_action = "ReplaceChar"
     /\ base.mode \in {"Normal", "Replace"}
     /\ base.sel = <<>>
     /\ base.col < Len(base.lines[base.row + 1])) =>
        LET t == editors[0].ta
        IN  /\ Len(t.lines) = Len(base.lines)
            /\ \A r \in 1..Len(base.lines) : Len(t.lines[r]) = Len(base.lines[r])
            /\ \A r \in 1..Len(base.lines) : \A c \in 1..Len(base.lines[r]) :
                   t.lines[r][c] = IF r = base.row + 1 /\ c = base.col + 1 THEN "x"
                                   ELSE base.lines[r][c]
            /\ t.row = base.row
            /\ t.col = base.col

----------------------------------------------------------------------------
\* C24: c in a Visual mode (the batch Delete(Selection), SetMode(Insert))
\* leaves the pane in Insert mode with the yank type it had before
C24_VisualChangeKeepsYankType ==
    (last_action = "ChangeSelection" /\ base.mode \in {"VisualChar", "VisualLine"}) =>
        /\ editors[0].mode = "Insert"
        /\ editors[0].yank_type = base.yank_type

----------------------------------------------------------------------------
\* C25: in the task-editor screen, Esc pressed while the active pane is in
\* Replace, Insert or a Visual mode returns that pane to Normal mode and keeps
\* the task editor focused on it; Esc gives the focus to the task list only
\* when the active pane is in Normal mode
C25_EscLeavesEditorOnlyFromNormal ==
    [][(/\ nev' # nev
        /\ active_pane = "TaskEditor"
        /\ active_index # NoIdx
        /\ ev'.input.key = "Esc") =>
          IF editors[active_index].mode = "Normal"
          THEN active_pane' = "TaskList"
          ELSE /\ active_pane' = "TaskEditor"
               /\ active_index' = active_index
               /\ editors'[active_index].mode = "Normal"]_vars

\* the same for the modes is_in_insert_mode names
C25_EscFromInsertOrVisual ==
    [][(/\ nev' # nev
        /\ active_pane = "TaskEditor"
        /\ active_index # NoIdx
        /\ ev'.input.key = "Esc"
        /\ editors[active_index].mode # "Replace") =>
          IF editors[active_index].mode = "Normal"
          THEN active_pane' = "TaskList"
          ELSE /\ active_pane' = "TaskEditor"
               /\ active_index' = active_index
               /\ editors'[active_index].mode = "Normal"]_vars

----------------------------------------------------------------------------
\* the mode without the kind of the Visual mode
ModeKind(mode) == IF mode \in {"VisualChar", "VisualLine"} THEN "Visual" ELSE mode

ModeEdges ==
    { <<"Normal", "Insert">>, <<"Normal", "Replace">>, <<"Normal", "Visual">>,
      <<"Visual", "Normal">>, <<"Visual", "Insert">>,
      <<"Insert", "Normal">>, <<"Replace", "Normal">> }

\* C26: per pane, one key event changes the mode only along Normal->Insert,
\* Normal->Replace, Normal->Visual, Visual->Normal, Visual->Insert,
\* Insert->Normal and Replace->Normal; Insert and Replace are left only for
\* Normal and only by Esc or ctrl-c, so Visual is never entered from them
C26_ModeChangesAlongEdges ==
    [][nev' # nev =>
          \A i \in DOMAIN editors :
              ModeKind(editors'[i].mode) # ModeKind(editors[i].mode) =>
                  /\ <<ModeKind(editors[i].mode), ModeKind(editors'[i].mode)>> \in ModeEdges
                  /\ editors[i].mode \in {"Insert", "Replace"} =>
                        \/ ev'.input.key = "Esc"
                        \/ ev'.input.key = "c" /\ ev'.input.ctrl]_vars

\* ctrl-c has taken the first pane from Insert mode to Normal mode
C26_Witness ==
    /\ ev.pane = 0
    /\ ev.mode0 = "Insert"
    /\ ev.input = Ctrl("c")
    /\ editors[0].mode = "Normal"

----------------------------------------------------------------------------
\* C27: in a composite built with n >= 1 panes and n layout constraints,
\* after any sequence of execute_action and on_click calls active_index is
\* Some(i) with i < n
C27_ActiveIndexStaysValid ==
    /\ active_index # NoIdx
    /\ 0 <= active_index
    /\ active_index < NumEditors(editors)
    /\ active_index \in DOMAIN editors

\* MoveCursor(Down) executed with the last pane active on its last row, after a
\* click on that pane
C27_Witness ==
    /\ ev.kind = "down"
    /\ ev.active0 = NumEditors(editors) - 1
    /\ ev.row0 = NumLines(editors[ev.active0].ta) - 1
    /\ active_index = NumEditors(editors) - 1
    /\ last_area

----------------------------------------------------------------------------
\* C28: after MoveCursor(Top) on a composite the first pane is active with its
\* cursor on row 0, after MoveCursor(Bottom) the last pane is active with its
\* cursor on its last row; the desired column of the pane moved to is the
\* desired column read from the pane that was active before, and the text of
\* no pane changes
C28_TopAndBottomCrossTheComposite ==
    [][(nev' # nev /\ ev'.kind \in {"top", "bottom"}) =>
          \E to \in {IF ev'.kind = "top" THEN 0 ELSE NumEditors(editors) - 1} :
              /\ active_index' = to
              /\ editors'[to].ta.row = IF ev'.kind = "top" THEN 0
                                       ELSE NumLines(editors'[to].ta) - 1
              /\ editors'[to].ta.desired = editors[active_index].ta.desired
              /\ \A j \in DOMAIN editors : editors'[j].ta.lines = editors[j].ta.lines]_vars

\* a click on row 0, column 3 of the second pane, j, then G: the third pane is
\* active on its last row with the desired column 3 of the second pane, its
\* cursor at the end of that row
C28_Witness ==
    /\ ev.kind = "bottom" /\ ev.active0 = 1
    /\ active_index = 2
    /\ editors[2].ta.row = 1 /\ editors[2].ta.col = 1 /\ editors[2].ta.desired = 3
    /\ editors[1].ta.desired = 3

----------------------------------------------------------------------------
\* C29: MoveCursor(Down) executed again and again on a composite walks the
\* rows of the panes one by one, in order: after k of them the cursor of the
\* active pane stands k rows below where it started, counted through the
\* composite, until it stands on the last row of the last pane, which it
\* reaches within the total number of rows and where it stays; the text of
\* the panes is as it was
C29_DownWalksEveryRow ==
    /\ DocRow(editors, active_index) = Min(base.pos0 + nev, TotalRows(editors) - 1)
    /\ nev >= TotalRows(editors) =>
          /\ active_index = NumEditors(editors) - 1
          /\ editors[active_index].ta.row = NumLines(editors[active_index].ta) - 1
    /\ \A i \in DOMAIN editors : editors[i].ta.lines = base.editors[i].ta.lines

\* three panes of three lines, from the first row of the first pane: the
\* eighth Down has reached the last row of the last pane
C29_Witness ==
    /\ NumEditors(editors) = 3
    /\ TotalRows(editors) = 9
    /\ base.pos0 = 0
    /\ nev = 8
    /\ ev.kind = "down" /\ ev.active0 = 2 /\ ev.row0 = 1
    /\ active_index = 2
    /\ editors[2].ta.row = 2

----------------------------------------------------------------------------
\* the operations of the list state that move the selection or pin it
KeepingOps ==
    {"select", "select_next", "select_previous", "select_first", "select_last",
     "scroll_down_by", "scroll_up_by", "start_visual_selection"}

\* C30: once visual_start is set, select, select_next, select_previous,
\* select_first, select_last, scroll_down_by, scroll_up_by and another
\* start_visual_selection leave it unchanged; end_visual_selection and a range
\* removal set it to None; end_visual_selection leaves selected and offset
\* unchanged
C30_VisualStartPinned ==
    /\ (lpc \in KeepingOps /\ lbase.visual_start # NoIdx) =>
          visual_start = lbase.visual_start
    /\ (lpc = "end_visual_selection" /\ lbase.visual_start # NoIdx) =>
          visual_start = NoIdx
    /\ (/\ lpc = "remove_selected_tasks"
        /\ lbase.visual_start # NoIdx
        /\ lbase.selected # NoIdx) => visual_start = NoIdx
    /\ lpc = "end_visual_selection" =>
          /\ selected = lbase.selected
          /\ offset = lbase.offset
          /\ items = lbase.items

\* start_visual_selection called again with the selection two items below the
\* pinned one
C30_Witness ==
    /\ lpc = "start_visual_selection"
    /\ lbase.visual_start = 0
    /\ lbase.selected = 2
    /\ visual_start = 0
    /\ selected = 2

----------------------------------------------------------------------------
\* C31: in the task list with no active visual range, d removes exactly the
\* item at the selected index of a list of one item or more, so that one item
\* fewer remains, and leaves selected at the same numeric index
C31_RemoveSelectedItem ==
    (/\ lpc = "removed"
     /\ lbase.items # <<>>
     /\ lbase.selected # NoIdx
     /\ lbase.visual_start = NoIdx) =>
        /\ Len(items) = Len(lbase.items) - 1
        /\ items = RemoveAt(lbase.items, lbase.selected)
        /\ selected = lbase.selected
        /\ visual_start = NoIdx

\* the same where the selected index is the index of an item
C31_RemoveSelectedItemInRange ==
    (/\ lpc = "removed"
     /\ lbase.selected # NoIdx
     /\ lbase.selected < Len(lbase.items)
     /\ lbase.visual_start = NoIdx) =>
        /\ Len(items) = Len(lbase.items) - 1
        /\ items = RemoveAt(lbase.items, lbase.selected)
        /\ selected = lbase.selected
        /\ visual_start = NoIdx

\* the draw after d removed the last of several items selects the new last item
C31_DrawClampsAfterRemoval ==
    [][(/\ lpc = "removed"
        /\ lpc' = "rendered"
        /\ items # <<>>
        /\ selected # NoIdx) =>
            /\ selected' = Min(selected, Len(items) - 1)
            /\ items' = items]_vars

----------------------------------------------------------------------------
\* C32: a pane that holds a pending action is in Normal mode, after every
\* sequence of key events, frames, clicks, activations and deactivations
C32_PendingOnlyInNormalMode ==
    \A i \in DOMAIN editors : IsArmed(editors[i]) => editors[i].mode = "Normal"

\* a key resolved the pending action of a pane into Visual mode, and none is left
C32_Witness ==
    /\ ev.kind = "resolve"
    /\ ev.pane \in DOMAIN editors
    /\ ev.mode0 = "Normal"
    /\ editors[ev.pane].mode = "VisualChar"
    /\ ~IsArmed(editors[ev.pane])

----------------------------------------------------------------------------
\* C33: in a composite driven by key events, every pane other than the active
\* pane is in Normal mode and has no active selection
C33_InactivePanesNormalUnselected ==
    \A i \in DOMAIN editors :
        i # active_index => editors[i].mode = "Normal" /\ editors[i].ta.sel = <<>>

----------------------------------------------------------------------------
\* C34: ReplaceChar(c) leaves the register of the pane and its yank-type tag
\* as they were, so that a line yanked before it is still the text p pastes
C34_ReplaceCharKeepsRegister ==
    last_action = "ReplaceChar" =>
        /\ editors[0].ta.yank = base.yank
        /\ editors[0].yank_type = base.yank_type

\* ReplaceChar(c) leaves the yank-type tag as it was
C34_ReplaceCharKeepsYankType ==
    last_action = "ReplaceChar" => editors[0].yank_type = base.yank_type

----------------------------------------------------------------------------
\* the pane after a line was opened at the 0-based row r of the text of base
OpenedAt(r) ==
    /\ editors[0].ta.lines = InsertAt(base.lines, r, <<>>)
    /\ editors[0].ta.row = r
    /\ editors[0].ta.col = 0
    /\ editors[0].mode = "Insert"

\* C35: in a multi-line pane in Normal mode, O inserts one empty line directly
\* above the cursor's line, for every cursor row with row 0 among them, and o
\* inserts it directly below; both leave the pane in Insert mode with the
\* cursor on the new line and every other line unchanged
C35_OpenLineAboveAndBelow ==
    (base # <<>> /\ ~editors[0].single_line) =>
        /\ (last_action = "OpenAbove" /\ base.mode = "Normal") => OpenedAt(base.row)
        /\ (last_action = "OpenBelow" /\ base.mode = "Normal") => OpenedAt(base.row + 1)

\* the same for o on every row and for O below the first row
C35_OpenLineBelowFirstRow ==
    (base # <<>> /\ ~editors[0].single_line) =>
        /\ (last_action = "OpenAbove" /\ base.mode = "Normal" /\ base.row > 0) =>
              OpenedAt(base.row)
        /\ (last_action = "OpenBelow" /\ base.mode = "Normal") => OpenedAt(base.row + 1)

----------------------------------------------------------------------------
\* C36: for every non-empty list, persisted offset, selection, scroll padding
\* and viewport height, get_items_bounds returns 0 <= first <= last <= item
\* count; first and last only decrease in the backward pass, so neither was
\* decremented at 0, and last - first is not negative
C36_BoundsOrderedWithinList ==
    lpc = "out" =>
        /\ 0 <= bounds[1]
        /\ bounds[1] <= bounds[2]
        /\ bounds[2] <= Len(items)

\* the backward pass in a viewport lower than an item: the window is moved up
\* from the offset to the selected item and left empty
C36_Witness ==
    /\ lpc = "out"
    /\ list_height = 1
    /\ Len(items) = 4 /\ offset = 3 /\ selected = 0
    /\ bounds = <<0, 0>>

----------------------------------------------------------------------------
\* C37: the visible window never exceeds the viewport: for every non-empty
\* list, offset, selection and viewport height of one row or more, the heights
\* below the height of an item included, (last - first) x ITEM_HEIGHT is at
\* most the viewport height
C37_WindowFitsViewport ==
    lpc = "out" => (bounds[2] - bounds[1]) * ITEM_HEIGHT <= list_height

\* the same for the viewports an item fits in
C37_WindowFitsViewportOfAnItem ==
    (lpc = "out" /\ list_height >= ITEM_HEIGHT) =>
        (bounds[2] - bounds[1]) * ITEM_HEIGHT <= list_height

----------------------------------------------------------------------------
\* C38: whenever visual_start is set it is the index of an item, in every
\* state reached by key events, draws, filtering and refreshes of the tasks, a
\* refresh that shrinks the list while a visual range is active included
C38_VisualStartValid ==
    visual_start # NoIdx => visual_start < Len(items)

----------------------------------------------------------------------------
(* FocusList, src/ui/focuslist/mod.rs, and FocusModeUI, src/ui/focusmode.rs. *)
(* A focus screen is a record                                                *)
(*   tasks : FocusModeUI.tasks                                               *)
(*   items, focused_index : the FocusList, whose items draw alone writes     *)

\* FocusList::focus with Some(index), or with None for NoIdx
focus(f, index) ==
    IF index = NoIdx THEN [f EXCEPT !.focused_index = NoIdx]
    ELSE IF index >= Len(f.items)
    THEN [f EXCEPT !.focused_index = SatSub(Len(f.items), 1)]
    ELSE [f EXCEPT !.focused_index = index]

focus_next(f) == focus(f, IF f.focused_index = NoIdx THEN 0 ELSE SatAdd(f.focused_index, 1))

focus_previous(f) ==
    focus(f, IF f.focused_index = NoIdx THEN USIZE_MAX ELSE SatSub(f.focused_index, 1))

focus_first(f) == focus(f, 0)

focus_last(f) == focus(f, USIZE_MAX)

set_items(f, its) == [f EXCEPT !.items = its]

FocusModeUI_set_tasks(f, tasks) ==
    IF f.focused_index = NoIdx /\ tasks # <<>> THEN focus([f EXCEPT !.tasks = tasks], 0)
    ELSE IF tasks = <<>> THEN focus([f EXCEPT !.tasks = tasks], NoIdx)
    ELSE [f EXCEPT !.tasks = tasks]

\* the focus fix-up of filter_tasks, after the retain
FocusAfterRetain(f) ==
    IF f.tasks = <<>> THEN focus(f, NoIdx)
    ELSE IF f.focused_index # NoIdx /\ f.focused_index >= Len(f.tasks)
    THEN focus(f, Len(f.tasks) - 1)
    ELSE f

\* filter_tasks with a filter that keeps the tasks of the set keep
FocusModeUI_filter_tasks(f, keep) ==
    FocusAfterRetain([f EXCEPT !.tasks = SelectSeq(@, LAMBDA t : t \in keep)])

\* the keys of the focus screen; "x" stands for every key no arm matches
FocusKeys == {"j", "k", "x"}

FocusModeUI_handle_key_event(f, key) ==
    CASE key = "j" -> focus_next(f)
      [] key = "k" -> focus_previous(f)
      [] OTHER -> f

\* FocusModeUI::draw: the items are built from the tasks, one for one
FocusModeUI_draw(f) == set_items(f, f.tasks)

----------------------------------------------------------------------------
(* The focus screen driven by the calls of its list, refreshes, filters,     *)
(* keys and draws                                                            *)

TheFocus == [tasks |-> focus_tasks, items |-> focus_items, focused_index |-> focused_index]

\* the focus variables take the fields of f
FocusBecomes(f) ==
    /\ focus_tasks' = f.tasks
    /\ focus_items' = f.items
    /\ focused_index' = f.focused_index

\* FocusModeUI::default()
InitFocus ==
    /\ focus_tasks = <<>>
    /\ focus_items = <<>>
    /\ focused_index = NoIdx
    /\ ListIdle
    /\ EditorIdle
    /\ ScreenIdle
    /\ AppIdle

\* the calls of FocusList
FocusOps ==
    { <<"focus", i>> : i \in {NoIdx, USIZE_MAX} \cup 0..MaxFocusTasks }
    \cup { <<op>> : op \in {"focus_next", "focus_previous", "focus_first", "focus_last"} }
    \cup { <<"set_items", n>> : n \in 0..MaxFocusTasks }

ApplyFocusOp(f, op) ==
    CASE op[1] = "focus" -> focus(f, op[2])
      [] op[1] = "focus_next" -> focus_next(f)
      [] op[1] = "focus_previous" -> focus_previous(f)
      [] op[1] = "focus_first" -> focus_first(f)
      [] op[1] = "focus_last" -> focus_last(f)
      [] op[1] = "set_items" -> set_items(f, [i \in 1..op[2] |-> i])

FocusCall ==
    /\ \E op \in FocusOps : FocusBecomes(ApplyFocusOp(TheFocus, op))
    /\ UNCHANGED <<listVars, editorVars, active_pane, appVars>>

FocusSetTasks ==
    /\ \E n \in 0..MaxFocusTasks :
          FocusBecomes(FocusModeUI_set_tasks(TheFocus, [i \in 1..n |-> i]))
    /\ UNCHANGED <<listVars, editorVars, active_pane, appVars>>

FocusFilterTasks ==
    /\ \E k \in 0..MaxFocusTasks : FocusBecomes(FocusModeUI_filter_tasks(TheFocus, 1..k))
    /\ UNCHANGED <<listVars, editorVars, active_pane, appVars>>

FocusKeyEvent ==
    /\ \E key \in FocusKeys : FocusBecomes(FocusModeUI_handle_key_event(TheFocus, key))
    /\ UNCHANGED <<listVars, editorVars, active_pane, appVars>>

FocusDraw ==
    /\ FocusBecomes(FocusModeUI_draw(TheFocus))
    /\ UNCHANGED <<listVars, editorVars, active_pane, appVars>>

NextFocus == FocusCall \/ FocusSetTasks \/ FocusFilterTasks \/ FocusKeyEvent \/ FocusDraw

SpecFocus == InitFocus /\ [][NextFocus]_vars

----------------------------------------------------------------------------
\* C39: in the focus list, after any sequence of focus, focus_next,
\* focus_previous, focus_first, focus_last and set_items calls, and of
\* set_tasks, filter_tasks, key events and draws of FocusModeUI, focused_index
\* is None or below the number of items, and None when the list is empty
C39_FocusedIndexValid ==
    /\ focused_index # NoIdx => focused_index < Len(focus_items)
    /\ focus_items = <<>> => focused_index = NoIdx

----------------------------------------------------------------------------
(* App, src/app.rs: the main loop, the channel of actions and the task that  *)
(* refresh_tasks spawns.  A fetched task is a record                         *)
(*   id  : its identity                                                      *)
(*   due : whether is_due_today or is_overdue holds for it                   *)
(* and the application is a record                                           *)
(*   cached_tasks, pending_tasks : the fields of App                         *)
(*   list  : the task list of NormalModeUI                                   *)
(*   focus : the focus screen                                                *)

\* what fetch_all_tasks may return with Ok
FetchResults ==
    UNION { [1..n -> { [id |-> i, due |-> b] : i \in 1..MaxFetched, b \in BOOLEAN }] :
            n \in 0..MaxFetched }

\* the tasks the filter of update_tasks keeps
Due(tasks) == { tasks[i] : i \in { j \in DOMAIN tasks : tasks[j].due } }

\* a NormalModeUI::update_tasks that hands the tasks over unfiltered
NormalModeUI_update_tasks_unfiltered(l, tasks) == set_tasks(l, tasks)

NormalModeUI_update_tasks(l, tasks) == filter_tasks(set_tasks(l, tasks), Due(tasks))

FocusModeUI_update_tasks(f, tasks) ==
    FocusModeUI_filter_tasks(FocusModeUI_set_tasks(f, tasks), Due(tasks))

AppUI_update_tasks(a, tasks) ==
    [a EXCEPT !.focus = FocusModeUI_update_tasks(@, tasks),
              !.list = NormalModeUI_update_tasks(@, tasks)]

update_cache(a) ==
    IF a.pending_tasks = <<>> THEN a
    ELSE AppUI_update_tasks([a EXCEPT !.cached_tasks = a.pending_tasks[1],
                                      !.pending_tasks = <<>>],
                            a.pending_tasks[1])

TheApp ==
    [cached_tasks |-> cached_tasks, pending_tasks |-> pending_tasks, list |-> TheList,
     focus |-> TheFocus]

\* the application variables take the fields of a
AppBecomes(a) ==
    /\ cached_tasks' = a.cached_tasks
    /\ pending_tasks' = a.pending_tasks
    /\ ListBecomes(a.list)
    /\ FocusBecomes(a.focus)

\* the terminal events of the main loop: ticks, frames, resizes and keys; the
\* task list has the focus, where q and ctrl-c quit and the other keys are its own
TermEvents == {"Tick", "Render", "Resize", "q", "ctrl-c", "d", "j"}

\* App::new, and run up to its loop: RefreshTasks is the first action sent
InitApp ==
    /\ cached_tasks = <<>>
    /\ pending_tasks = <<>>
    /\ rx = <<"RefreshTasks">>
    /\ app_pc = "await"
    /\ quitting = FALSE
    /\ fetch = "idle"
    /\ fetched = <<>>
    /\ applied = 0
    /\ items = <<>>
    /\ selected = NoIdx
    /\ offset = 0
    /\ visual_start = NoIdx
    /\ scroll_padding = 0
    /\ list_height = MaxTaskHeight
    /\ bounds = <<>>
    /\ lpc = "idle"
    /\ lbase = <<>>
    /\ FocusIdle
    /\ EditorIdle
    /\ ScreenIdle

\* the loop takes the next terminal event and handles it: handle_event
TerminalEvent ==
    /\ app_pc = "await"
    /\ \E e \in TermEvents :
          /\ e = "j" => selected = NoIdx \/ selected < Len(items) + MaxOver
          /\ rx' = CASE e \in {"Tick", "Render", "Resize"} -> Append(rx, e)
                     [] e \in {"q", "ctrl-c"} -> Append(rx, "Quit")
                     [] OTHER -> rx
          /\ ListBecomes(IF e \in {"d", "j"} THEN TaskList_handle_key_event(TheList, e)
                         ELSE TheList)
    /\ app_pc' = "drain"
    /\ UNCHANGED <<cached_tasks, pending_tasks, quitting, fetch, fetched, applied>>
    /\ UNCHANGED <<scroll_padding, list_height, bounds, lpc, lbase>>
    /\ UNCHANGED <<focusVars, editorVars, active_pane>>

\* one turn of the while loop over try_recv: execute_action on the action received
Drain ==
    /\ app_pc = "drain"
    /\ rx # <<>>
    /\ rx' = Tail(rx)
    /\ \E action \in {Head(rx)} :
          /\ AppBecomes(CASE action = "UpdateCache" -> update_cache(TheApp)
                          [] action = "Render" ->
                               [TheApp EXCEPT !.list = TaskList_draw(@, list_height).list]
                          [] OTHER -> TheApp)
          /\ quitting' = (quitting \/ action = "Quit")
          /\ fetch' = IF action = "RefreshTasks" THEN "running" ELSE fetch
          /\ applied' = IF action = "UpdateCache" /\ pending_tasks # <<>>
                        THEN applied + 1 ELSE applied
    /\ UNCHANGED <<app_pc, fetched>>
    /\ UNCHANGED <<scroll_padding, list_height, bounds, lpc, lbase>>
    /\ UNCHANGED <<editorVars, active_pane>>

\* try_recv finds the channel empty: the loop ends when quitting, else goes round
LoopEnd ==
    /\ app_pc = "drain"
    /\ rx = <<>>
    /\ app_pc' = IF quitting THEN "exited" ELSE "await"
    /\ UNCHANGED <<cached_tasks, pending_tasks, rx, quitting, fetch, fetched, applied>>
    /\ UNCHANGED <<listVars, focusVars, editorVars, active_pane>>

\* the spawned task: fetch_all_tasks returns Ok(tasks), which it stores
FetchStores ==
    /\ fetch = "running"
    /\ \E tasks \in FetchResults :
          /\ pending_tasks' = <<tasks>>
          /\ fetched' = <<tasks>>
    /\ fetch' = "stored"
    /\ UNCHANGED <<cached_tasks, rx, app_pc, quitting, applied>>
    /\ UNCHANGED <<listVars, focusVars, editorVars, active_pane>>

\* the spawned task sends UpdateCache; the send fails once the loop has ended
FetchSends ==
    /\ fetch = "stored"
    /\ rx' = IF app_pc = "exited" THEN rx ELSE Append(rx, "UpdateCache")
    /\ fetch' = "sent"
    /\ UNCHANGED <<cached_tasks, pending_tasks, app_pc, quitting, fetched, applied>>
    /\ UNCHANGED <<listVars, focusVars, editorVars, active_pane>>

\* the spawned task: fetch_all_tasks returns Err(e), which it sends as Error
FetchFails ==
    /\ fetch = "running"
    /\ rx' = IF app_pc = "exited" THEN rx ELSE Append(rx, "Error")
    /\ fetch' = "failed"
    /\ UNCHANGED <<cached_tasks, pending_tasks, app_pc, quitting, fetched, applied>>
    /\ UNCHANGED <<listVars, focusVars, editorVars, active_pane>>

NextApp == TerminalEvent \/ Drain \/ LoopEnd \/ FetchStores \/ FetchSends \/ FetchFails

SpecApp == InitApp /\ [][NextApp]_vars

\* terminal events keep arriving, and the loop and the spawned task keep running
LiveApp ==
    /\ SpecApp
    /\ WF_vars(TerminalEvent)
    /\ WF_vars(Drain)
    /\ WF_vars(LoopEnd)
    /\ WF_vars(FetchSends)

\* the tasks of a fetched result that the screens show
DueOnly(tasks) == SelectSeq(tasks, LAMBDA t : t.due)

\* the loop is about to execute the action a
Executing(a) == app_pc = "drain" /\ rx # <<>> /\ Head(rx) = a

(* C40, as stated: the step that applies a fetched result replaces the      *)
(* cached task list, the task list's items and the focus screen's tasks     *)
(* with exactly that result.                                                *)
C40_FetchAppliedExactly ==
    [][applied' # applied =>
          /\ cached_tasks' = fetched[1]
          /\ items' = fetched[1]
          /\ focus_tasks' = fetched[1]]_vars

(* C40, amended: a fetched result is applied at most once, and the step     *)
(* that applies it replaces the cached task list with exactly that result   *)
(* and the items of the task list and the tasks of the focus screen with    *)
(* its tasks that are due today or overdue; executing Error, or UpdateCache *)
(* with nothing pending, and the failing of the fetch itself change neither *)
(* the cached tasks nor the lists; and once UpdateCache is sent to a        *)
(* running loop the result is applied, unless the loop ends first.          *)
C40_FetchAppliedOnceFiltered ==
    /\ [](applied <= 1)
    /\ [][applied' # applied =>
             /\ Executing("UpdateCache")
             /\ applied' = applied + 1
             /\ pending_tasks = fetched
             /\ pending_tasks' = <<>>
             /\ cached_tasks' = fetched[1]
             /\ items' = DueOnly(fetched[1])
             /\ focus_tasks' = DueOnly(fetched[1])]_vars
    /\ [][(\/ Executing("Error")
           \/ Executing("UpdateCache") /\ pending_tasks = <<>>
           \/ fetch' = "failed") =>
             UNCHANGED <<cached_tasks, items, focus_tasks, focus_items>>]_vars
    /\ [](pending_tasks = <<>> => update_cache(TheApp) = TheApp)
    /\ (fetch = "sent" /\ app_pc # "exited") ~> (applied = 1 \/ app_pc = "exited")

\* a result of two tasks, one of them not due, has been applied
C40_Witness ==
    /\ applied = 1
    /\ fetch = "sent"
    /\ Len(fetched[1]) = 2
    /\ cached_tasks = fetched[1]
    /\ pending_tasks = <<>>
    /\ Len(focus_tasks) = 1
    /\ focus_tasks = DueOnly(cached_tasks)
    /\ app_pc = "await"

====
